---- MODULE Spec2Model ----
(***************************************************************************)
(* Service supervisor of the desktop orchestrator: BaseBackendService and  *)
(* its two variants (GoBackendService, PythonBackendService), the          *)
(* BackendServiceManager and the ordered startup of AppLifecycle.          *)
(*                                                                         *)
(* The JavaScript event loop is modelled explicitly: a call runs           *)
(* synchronously up to its first await; the continuation of a settled      *)
(* await is a microtask (FIFO queue mq); timers, process events and HTTP   *)
(* responses are macrotasks, which only run when the microtask queue is    *)
(* empty.                                                                  *)
(***************************************************************************)
EXTENDS Integers, Sequences, FiniteSets, TLC

\* ---------------------------------------------------------------- bounds
MaxCalls == 3      \* start()/stop()/restart() calls issued by API callers
MaxProcs == 2      \* child processes spawned in one behaviour
MaxRequests == 2   \* sendUserMessage calls in one behaviour
MaxMessages == 20  \* history length up to which the model answers with tool calls
MaxToolHistory == 8  \* the same, where the outcomes of the tool calls vary
MaxBridgeCalls == 3  \* listTools()/callTool() calls on the McpClientManager

\* ------------------------------------------------- BackendServiceStatus
Stopped == "stopped"
Starting == "starting"
Running == "running"
Stopping == "stopping"
Error == "error"

BackendServiceStatus == {Stopped, Starting, Running, Stopping, Error}

GoName == "go-backend"
PythonName == "python-backend"
Services == {GoName, PythonName}

\* values of BaseBackendService.error (null or the Error recorded)
NoError == "null"
ErrSpawn == "spawn failed"
ErrTimeout == "startup timeout"
ErrExited == "process exited prematurely"
ErrHealth == "Health check failed"
ErrKill == "kill failed"
ErrAlreadyStarting == "already starting"

VARIABLES
  driver,            \* who issues calls: one service's API callers, or "lifecycle"
  announce,          \* the stdout chunk Go children announce their address with
  status,            \* BaseBackendService.status, per service
  process,           \* BaseBackendService.process: a process id, 0 = null
  startTime,         \* BaseBackendService.startTime is set (TRUE) or null
  error,             \* BaseBackendService.error
  healthCheckTimer,  \* BaseBackendService.healthCheckTimer: timer id, 0 = null
  timers,            \* interval timers still scheduled, per service
  timerSeq,          \* timers created so far, per service
  probes,            \* some health probe is in flight, per service
  procs,             \* every child process spawned: sequence of records
  killTimers,        \* processes with an armed SIGKILL timer of killProcess
  address,           \* GoBackendService.address (characters)
  baseUrl,           \* GoBackendService.baseUrl (characters)
  envUrl,            \* process.env.MCP_SERVER_URL of the main process
  lc,                \* position of AppLifecycle.setupBackendServices / shutdown
  cmBaseUrl,         \* the base URL handed to ConversationManager.setBackendBaseUrl
  calls,             \* every start()/stop()/restart() call: sequence of records
  mq,                \* microtask queue: call ids, 0 = the lifecycle continuation
  returned,          \* the call that settled in the last step: <<id, result, error>>
  emitted,           \* events emitted by the last step: <<event, info.status>>
  lastAct,           \* label of the last step
  messages,          \* ConversationManager.messages: the history
  isProcessing,      \* ConversationManager.isProcessing
  tasks,             \* every sendUserMessage call: its task on processingQueue
  llmSent,           \* the inference requests sent for the user message in progress
  catalog,           \* number of tools the automation service lists
  errorListener,     \* an 'error' listener is registered on the ConversationManager
  aEmitted,          \* events the ConversationManager emitted in the last step
  aAct,              \* label of the last step of the ConversationManager
  mcp,               \* McpClientManager: client, transport, endpoint, toolsCache
  bLast,             \* the McpClientManager call that returned last, what it did
  bCount,            \* McpClientManager calls made so far
  bFetches,          \* tool lists fetched from the service since the last disconnect
  chat,              \* one LlmClient.createChatCompletion request
  tools,             \* ConversationManager.tools: the catalog as listed
  toolDefinitions,   \* ConversationManager.toolDefinitions: what the model is given
  snapshot,          \* the messages array getState() returned last: <<>> or <<array>>
  resets,            \* resetConversation() calls made so far
  replay             \* two sessions fed the same inputs: their histories as stored

svcVars == <<status, process, startTime, error, healthCheckTimer, timers,
             timerSeq, probes>>
goVars == <<address, baseUrl>>
lcVars == <<envUrl, lc, cmBaseUrl>>
clientVars == <<mcp, bLast, bCount, bFetches, chat>>
defVars == <<tools, toolDefinitions>>
sessionVars == <<snapshot, resets, replay>>
agentVars == <<messages, isProcessing, tasks, llmSent, catalog, errorListener,
               aEmitted, aAct, clientVars, defVars, sessionVars>>
backendVars == <<driver, announce, svcVars, goVars, envUrl, lc, procs, killTimers, calls, mq,
                 returned, emitted, lastAct>>
vars == <<driver, announce, svcVars, goVars, lcVars, procs, killTimers, calls, mq, returned,
          emitted, lastAct, agentVars>>

\* ------------------------------------------------------------- helpers
\* config.healthCheckUrl as the manager's factories and the constructors set it
HasHealthCheckUrl(s) == s = PythonName

\* a child process: st is "live", "exitCode" (exited, exitCode set) or
\* "exitSignal" (ended by a signal, exitCode null); killed is child.killed;
\* forced: a SIGKILL was delivered; said: its readiness line was printed;
\* env: the MCP_SERVER_URL it was given
NewProc(s, url) ==
  [svc |-> s, st |-> "live", killed |-> FALSE, forced |-> FALSE, said |-> FALSE,
   env |-> url]

NewCall(o, s, r, b) ==
  [op |-> o, svc |-> s, pc |-> "new", child |-> 0, restart |-> r, by |-> b,
   res |-> "pending", err |-> NoError]

Act(o, s, c) == [op |-> o, svc |-> s, c |-> c]

\* child.kill(sig): delivered only while the process has not exited; a
\* delivered signal sets child.killed
KillProc(ps, p, sig) ==
  IF p = 0 \/ ps[p].st # "live" THEN ps
  ELSE IF sig = "SIGTERM"
       THEN [ps EXCEPT ![p].killed = TRUE]
       ELSE [ps EXCEPT ![p].killed = TRUE, ![p].forced = TRUE]

\* An exited child that no service holds any more can no longer be observed
\* (nothing reads its exitCode or killed flag again): its record is reduced
\* to the fact that it has exited
Reap(ps, held) ==
  [p \in 1..Len(ps) |->
     IF ps[p].st # "live" /\ \A s \in Services : held[s] # p
     THEN [ps[p] EXCEPT !.st = "exited", !.killed = FALSE, !.forced = FALSE,
                        !.said = FALSE]
     ELSE ps[p]]

\* variant: stopAll() without the try/catch around each stop()
StopAllUncaught(r) == r

\* stopAll(): `try { await service.stop() } catch (error) { log.error(...) }`,
\* the outcome of the wrapper promise given the outcome of stop()
StopAllCaught(r) == "ok"

\* the stop() calls stopAll() has made
StopAllCalls(cs) == {d \in 1..Len(cs) : cs[d].by = "stopAll"}

\* Promise.all(stopPromises) settles with the wrapper of call c: it rejects
\* with the first rejection, it resolves when the last one has resolved
StopAllSettles(cs, c, r) ==
  LET others == StopAllCalls(cs) \ {c} IN
    /\ \A d \in others : cs[d].res # "err"
    /\ \/ StopAllCaught(r) = "err"
       \/ /\ Cardinality(others) + 1 = Cardinality(Services)
          /\ \A d \in others : cs[d].pc = "done"

\* a call settles: its awaiting caller (restart's second half, or the
\* lifecycle) gets a continuation on the microtask queue
\* (the record of a settled call keeps its result only for the lifecycle,
\* which reads it in its continuation)
Settle(cs, c, r, e) ==
  IF cs[c].restart /\ cs[c].op = "stop" /\ r = "ok"
  THEN [cs EXCEPT ![c].pc = "restart_mid"]
  ELSE [cs EXCEPT ![c] = [op |-> "settled", svc |-> cs[c].svc, pc |-> "done",
                          child |-> 0, restart |-> FALSE, by |-> cs[c].by,
                          res |-> IF cs[c].by = "lifecycle" THEN r
                                  ELSE IF cs[c].by = "stopAll" THEN StopAllCaught(r)
                                  ELSE "settled",
                          err |-> IF cs[c].by = "stopAll" THEN e ELSE NoError]]

\* what the caller of the call gets when it settles
Returned(cs, c, r, e) ==
  IF cs[c].restart /\ cs[c].op = "stop" /\ r = "ok" THEN <<>> ELSE <<c, r, e>>

SettleQ(q, cs, c, r) ==
  IF cs[c].restart /\ cs[c].op = "stop" /\ r = "ok" THEN Append(q, c)
  ELSE IF cs[c].by = "lifecycle" THEN Append(q, 0)
  ELSE IF cs[c].by = "stopAll" /\ StopAllSettles(cs, c, r) THEN Append(q, 0)
  ELSE q

PendingRestarts ==
  Cardinality({c \in 1..Len(calls) :
                 calls[c].restart /\ calls[c].op = "stop" /\ calls[c].pc # "done"})

CanSpawn == Len(procs) + PendingRestarts < MaxProcs

\* ------------------------------------------------- GoBackendService strings
\* text is a sequence of one-character strings
Prefix == <<"A", "P", "P", "_", "S", "E", "R", "V", "E", "R", "_", "A", "D", "D", "R", "=">>
Http == <<"h", "t", "t", "p", ":", "/", "/">>
Loopback == <<"1", "2", "7", ".", "0", ".", "0", ".", "1">>
DefaultBaseUrl ==
  <<"h", "t", "t", "p", ":", "/", "/", "1", "2", "7", ".", "0", ".", "0", ".", "1", ":", "1", "8", "0", "6", "0">>
AnyV4 == <<"0", ".", "0", ".", "0", ".", "0">>
AnyV6 == <<":", ":">>
LoopV6 == <<":", ":", "1">>

\* stdout chunks a Go backend may write when it announces its address
ChunkV4 ==
  <<"A", "P", "P", "_", "S", "E", "R", "V", "E", "R", "_", "A", "D", "D", "R", "=", "1", "2", "7", ".", "0", ".", "0", ".", "1", ":", "5", "5", "5", "5", "\n">>
ChunkV6 ==
  <<"t", "i", "m", "e", "=", "1", " ", "l", "e", "v", "e", "l", "=", "i", "n", "f", "o", "\n", "A", "P", "P", "_", "S", "E", "R", "V", "E", "R", "_", "A", "D", "D", "R", "=", "[", ":", ":", "]", ":", "5", "5", "5", "5", "\r", "\n">>
ChunkBad ==
  <<" ", " ", "A", "P", "P", "_", "S", "E", "R", "V", "E", "R", "_", "A", "D", "D", "R", "=", "0", ".", "0", ".", "0", ".", "0", ":", "h", "t", "t", "p", " ", "\n">>
Chunks == {ChunkV4, ChunkV6, ChunkBad}

\* an MCP_SERVER_URL the user's environment may already hold
UrlV4 ==
  <<"h", "t", "t", "p", ":", "/", "/", "1", "2", "7", ".", "0", ".", "0", ".", "1", ":",
    "5", "5", "5", "5">>
UrlPreset == <<"h", "t", "t", "p", ":", "/", "/", "o", "l", "d">>

Digits == {"0", "1", "2", "3", "4", "5", "6", "7", "8", "9"}
Whitespace == {" ", "\t", "\r", "\n"}

Sub(t, i, j) == IF j < i THEN <<>> ELSE SubSeq(t, i, j)

RECURSIVE TrimLeft(_)
TrimLeft(t) ==
  IF t # <<>> /\ Head(t) \in Whitespace THEN TrimLeft(Tail(t)) ELSE t

RECURSIVE TrimRight(_)
TrimRight(t) ==
  IF t # <<>> /\ t[Len(t)] \in Whitespace
  THEN TrimRight(Sub(t, 1, Len(t) - 1)) ELSE t

\* String.prototype.trim
Trim(t) == TrimRight(TrimLeft(t))

\* text.split(/\r?\n/)
RECURSIVE SplitLines(_, _)
SplitLines(t, cur) ==
  IF t = <<>> THEN <<cur>>
  ELSE IF Head(t) = "\n" THEN <<cur>> \o SplitLines(Tail(t), <<>>)
  ELSE IF Head(t) = "\r" /\ Len(t) > 1 /\ t[2] = "\n"
       THEN <<cur>> \o SplitLines(Sub(t, 3, Len(t)), <<>>)
  ELSE SplitLines(Tail(t), Append(cur, Head(t)))

\* text.split(/\r?\n/).map((l) => l.trim()).filter(Boolean)
Lines(t) ==
  LET raw == SplitLines(t, <<>>)
      trimmed == [i \in 1..Len(raw) |-> Trim(raw[i])]
  IN SelectSeq(trimmed, LAMBDA l : l # <<>>)

StartsWith(t, pre) == Len(t) >= Len(pre) /\ Sub(t, 1, Len(pre)) = pre

\* addr.lastIndexOf(':'), 1-based; 0 when there is none
LastColon(t) ==
  LET at == {i \in 1..Len(t) : t[i] = ":"}
  IN IF at = {} THEN 0 ELSE CHOOSE i \in at : \A j \in at : j <= i

AllDigits(t) == t # <<>> /\ \A i \in 1..Len(t) : t[i] \in Digits

\* !isNaN(Number(port)) for a non-empty trimmed port over digits and letters
IsNumber(t) == AllDigits(t)

\* addr.match(/^\[([^\]]+)\]:(\d+)$/): <<host, port>>, or <<>> when no match
BracketMatch(t) ==
  LET close == {i \in 2..Len(t) : t[i] = "]"}
      k == CHOOSE i \in close : \A j \in close : i <= j
  IN IF t = <<>> \/ t[1] # "[" \/ close = {} THEN <<>>
     ELSE IF k > 2 /\ Len(t) > k + 1 /\ t[k + 1] = ":"
             /\ AllDigits(Sub(t, k + 2, Len(t)))
          THEN <<Sub(t, 2, k - 1), Sub(t, k + 2, Len(t))>>
          ELSE <<>>

\* GoBackendService.buildBaseUrl
buildBaseUrl(addr) ==
  LET m == BracketMatch(addr)
      i == LastColon(addr)
      hostPart == Trim(Sub(addr, 1, i - 1))
      host == IF hostPart = <<>> \/ hostPart = AnyV4 \/ hostPart = AnyV6
              THEN Loopback ELSE hostPart
      port == Trim(Sub(addr, i + 1, Len(addr)))
  IN IF addr # <<>> /\ addr[1] = "[" /\ m # <<>>
     THEN IF m[1] = AnyV6 \/ m[1] = LoopV6
          THEN Http \o Loopback \o <<":">> \o m[2]
          ELSE Http \o <<"[">> \o m[1] \o <<"]", ":">> \o m[2]
     ELSE IF i = 0 THEN DefaultBaseUrl
     ELSE IF port = <<>> \/ ~IsNumber(port) THEN DefaultBaseUrl
     ELSE Http \o host \o <<":">> \o port

\* the first line of a chunk that starts with the prefix, <<>> when none
ReadyLineOf(chunk) ==
  LET ls == Lines(chunk)
      hit == {i \in 1..Len(ls) : StartsWith(ls[i], Prefix)}
  IN IF hit = {} THEN <<>> ELSE ls[CHOOSE i \in hit : \A j \in hit : i <= j]

\* line.replace('APP_SERVER_ADDR=', '').trim() for a line that starts with it
AddressOf(line) == Trim(Sub(line, Len(Prefix) + 1, Len(line)))

\* the history after the constructor: the system prompt
SystemMsg ==
  [role |-> "system", req |-> 0, kind |-> "prompt", it |-> 0, k |-> 0, text |-> <<>>,
   error |-> "none", toolName |-> "", isError |-> FALSE]

\* the services before any start()
ServicesIdle ==
  /\ status = [s \in Services |-> Stopped]
  /\ process = [s \in Services |-> 0]
  /\ startTime = [s \in Services |-> FALSE]
  /\ error = [s \in Services |-> NoError]
  /\ healthCheckTimer = [s \in Services |-> 0]
  /\ timers = [s \in Services |-> {}]
  /\ timerSeq = [s \in Services |-> 0]
  /\ probes = [s \in Services |-> FALSE]
  /\ procs = <<>>
  /\ killTimers = {}
  /\ address = <<>>
  /\ baseUrl = <<>>
  /\ calls = <<>>
  /\ mq = <<>>
  /\ returned = <<>>
  /\ emitted = <<>>
  /\ lastAct = Act("init", "", 0)

\* the McpClientManager after its constructor: null is the empty sequence,
\* a value v is <<v>>
NoBridge ==
  [client |-> FALSE, transport |-> FALSE, endpoint |-> <<>>, toolsCache |-> <<>>,
   connecting |-> FALSE]

NoBridgeCall ==
  [op |-> "none", url |-> <<>>,
   res |-> [kind |-> "none", tools |-> <<>>, content |-> <<>>, isError |-> FALSE],
   remote |-> <<>>]

\* the promise of a chat request: pending, resolved with an LlmResponse
\* (content null is <<>>, a text t is <<t>>), or rejected with an error
Pending ==
  [kind |-> "pending", content |-> <<>>, toolCalls |-> 0, finishReason |-> <<>>,
   why |-> "none"]

\* no chat request has been opened
ChatIdle ==
  [st |-> "none", onStream |-> FALSE, accumulatedContent |-> <<>>, toolCalls |-> 0,
   finishReason |-> <<>>, hasError |-> FALSE, timeout |-> FALSE, ws |-> "none",
   outcome |-> Pending, rcvd |-> <<>>]

ClientsIdle ==
  /\ mcp = NoBridge
  /\ bLast = NoBridgeCall
  /\ bCount = 0
  /\ bFetches = 0
  /\ chat = ChatIdle

\* no session is being replayed
NoReplay == [a |-> <<>>, b |-> <<>>]

\* the ConversationManager after its constructor
AgentIdle ==
  /\ messages = <<SystemMsg>>
  /\ isProcessing = FALSE
  /\ tasks = <<>>
  /\ llmSent = <<>>
  /\ aEmitted = <<>>
  /\ aAct = [op |-> "init", req |-> 0]
  /\ tools = <<>>
  /\ toolDefinitions = <<>>
  /\ snapshot = <<>>
  /\ resets = 0
  /\ replay = NoReplay

Init ==
  /\ \/ driver \in Services /\ announce = ChunkV4 /\ envUrl = <<>>
        /\ lc = [pc |-> "off", call |-> 0]
     \/ driver = "lifecycle" /\ announce \in Chunks /\ envUrl \in {<<>>, UrlPreset}
        /\ lc = [pc |-> "setup", call |-> 0]
  /\ ServicesIdle
  /\ cmBaseUrl = <<>>
  /\ AgentIdle
  /\ ClientsIdle
  /\ catalog = 0
  /\ errorListener = TRUE

\* ------------------------------------------------ BaseBackendService.start
StartReturnsEarly(s) == status[s] = Running

\* variant: start() without the guard against a start in progress
StartWithoutStartingGuard(s) == FALSE

StartThrowsAlreadyStarting(s) == status[s] = Starting

\* spawnProcess(): the Python variant throws when no interpreter or entry
\* file is found; the Go variant always returns the child of spawn()
SpawnOutcomes(s) == IF s = PythonName THEN {TRUE, FALSE} ELSE {TRUE}

\* the MCP_SERVER_URL the child is given: only the Python variant copies it
\* from process.env, when it is set
SpawnEnv(s, env) == IF s = PythonName THEN env ELSE <<>>

\* start() up to its first await (the promise of spawnProcess); env is the
\* value of process.env.MCP_SERVER_URL at the time of the call
StartBody(s, c, cs, q, env) ==
  IF StartReturnsEarly(s) THEN
    /\ calls' = Settle(cs, c, "ok", NoError)
    /\ returned' = Returned(cs, c, "ok", NoError)
    /\ mq' = SettleQ(q, cs, c, "ok")
    /\ emitted' = <<>>
    /\ UNCHANGED <<status, error, procs>>
  ELSE IF StartThrowsAlreadyStarting(s) THEN
    /\ calls' = Settle(cs, c, "err", ErrAlreadyStarting)
    /\ returned' = Returned(cs, c, "err", ErrAlreadyStarting)
    /\ mq' = SettleQ(q, cs, c, "err")
    /\ emitted' = <<>>
    /\ UNCHANGED <<status, error, procs>>
  ELSE
    /\ status' = [status EXCEPT ![s] = Starting]
    /\ error' = [error EXCEPT ![s] = NoError]
    /\ returned' = <<>>
    /\ emitted' = << <<"status", Starting>> >>
    /\ \E ok \in SpawnOutcomes(s) :
         IF ok
         THEN /\ procs' = Append(procs, NewProc(s, SpawnEnv(s, env)))
              /\ calls' = [cs EXCEPT ![c].op = "start", ![c].pc = "await_spawn",
                                     ![c].child = Len(procs) + 1]
         ELSE /\ procs' = procs
              /\ calls' = [cs EXCEPT ![c].op = "start", ![c].pc = "await_spawn",
                                     ![c].child = 0]
    /\ mq' = Append(q, c)

\* an API caller invokes service.start()
ApiStart(s) ==
  /\ driver = s
  /\ Len(calls) < MaxCalls
  /\ CanSpawn
  /\ LET c == Len(calls) + 1 IN
       /\ StartBody(s, c, Append(calls, NewCall("start", s, FALSE, "api")), mq, envUrl)
       /\ lastAct' = Act("start", s, c)
  /\ UNCHANGED <<agentVars, driver, announce, process, startTime, healthCheckTimer, timers, timerSeq,
                 probes, killTimers, goVars, lcVars>>

\* the awaited promise of spawnProcess() rejected
SpawnRejected(c) == calls[c].child = 0

\* start() resumes after `await this.spawnProcess()`: either the handle is
\* stored and waitForReady() begins, or the catch block records the failure
AfterSpawn(c) ==
  /\ mq # <<>> /\ Head(mq) = c /\ c # 0
  /\ calls[c].pc = "await_spawn"
  /\ LET s == calls[c].svc IN
       /\ lastAct' = Act("afterSpawn", s, c)
       /\ IF ~SpawnRejected(c)
          THEN /\ process' = [process EXCEPT ![s] = calls[c].child]
               /\ startTime' = [startTime EXCEPT ![s] = TRUE]
               /\ calls' = [calls EXCEPT ![c].pc = "await_ready"]
               /\ mq' = Tail(mq)
               /\ returned' = <<>>
               /\ emitted' = <<>>
               /\ UNCHANGED <<status, error>>
          ELSE /\ status' = [status EXCEPT ![s] = Error]
               /\ error' = [error EXCEPT ![s] = ErrSpawn]
               /\ emitted' = << <<"error", Error>>, <<"status", Error>> >>
               /\ calls' = Settle(calls, c, "err", ErrSpawn)
               /\ returned' = Returned(calls, c, "err", ErrSpawn)
               /\ mq' = SettleQ(Tail(mq), calls, c, "err")
               /\ UNCHANGED <<process, startTime>>
  /\ procs' = Reap(procs, process')
  /\ UNCHANGED <<agentVars, driver, announce, healthCheckTimer, timers, timerSeq, probes,
                 killTimers, goVars, lcVars>>

\* ------------------------------------------------------------ waitForReady
\* the promise of waitForReady() settles: start() gets a continuation
ReadySettled(cs, c, e) == [cs EXCEPT ![c].pc = "ready_settled", ![c].err = e]

\* GoBackendService.waitForReady, handleData: the child writes a chunk that
\* holds its readiness line
GoReadyLine(p) ==
  /\ mq = <<>>
  /\ p \in 1..Len(procs)
  /\ procs[p].svc = GoName /\ procs[p].st = "live" /\ ~procs[p].said
  /\ ReadyLineOf(announce) # <<>>
  /\ \E c \in 1..Len(calls) :
       /\ calls[c].op = "start" /\ calls[c].child = p
       /\ calls[c].pc \in {"await_ready", "ready_settled", "done"}
  /\ procs' = [procs EXCEPT ![p].said = TRUE]
  /\ address' = AddressOf(ReadyLineOf(announce))
  /\ baseUrl' = buildBaseUrl(AddressOf(ReadyLineOf(announce)))
  /\ LET w == {c \in 1..Len(calls) : calls[c].op = "start" /\ calls[c].child = p
                                      /\ calls[c].pc = "await_ready"}
     IN /\ calls' = [c \in 1..Len(calls) |->
                       IF c \in w THEN ReadySettled(calls, c, NoError)[c] ELSE calls[c]]
        /\ mq' = IF w = {} THEN mq ELSE <<CHOOSE c \in w : TRUE>>
  /\ returned' = <<>>
  /\ emitted' = <<>>
  /\ lastAct' = Act("readyLine", GoName, p)
  /\ UNCHANGED <<agentVars, driver, announce, svcVars, lcVars, killTimers>>

\* something answers GET /health on the Python port
HealthEndpointUp(s) == \E p \in 1..Len(procs) : procs[p].svc = s /\ procs[p].st = "live"

\* PythonBackendService.waitForReady, checkHealth: a poll gets response.ok
PythonPollOk(c) ==
  /\ mq = <<>>
  /\ c \in 1..Len(calls)
  /\ calls[c].op = "start" /\ calls[c].svc = PythonName /\ calls[c].pc = "await_ready"
  /\ HealthEndpointUp(PythonName)
  /\ calls' = ReadySettled(calls, c, NoError)
  /\ mq' = <<c>>
  /\ returned' = <<>>
  /\ emitted' = <<>>
  /\ lastAct' = Act("pollOk", PythonName, c)
  /\ UNCHANGED <<agentVars, driver, announce, svcVars, goVars, lcVars, procs, killTimers>>

\* the startup timeout of waitForReady fires (both variants): reject, then
\* this.process.kill() on whatever handle the service holds now
StartupTimeout(c) ==
  /\ mq = <<>>
  /\ c \in 1..Len(calls)
  /\ calls[c].op = "start" /\ calls[c].pc = "await_ready"
  /\ calls' = ReadySettled(calls, c, ErrTimeout)
  /\ mq' = <<c>>
  /\ procs' = KillProc(procs, process[calls[c].svc], "SIGTERM")
  /\ returned' = <<>>
  /\ emitted' = <<>>
  /\ lastAct' = Act("startupTimeout", calls[c].svc, c)
  /\ UNCHANGED <<agentVars, driver, announce, svcVars, goVars, lcVars, killTimers>>

\* startHealthCheck(): no timer without config.healthCheckUrl; the new
\* timer's handle overwrites the stored one
StartsHealthTimer(s) == HasHealthCheckUrl(s)

\* variant: a rejection of waitForReady() that is swallowed
ReadyRejectionSwallowed(c) == FALSE

\* the awaited promise of waitForReady() rejected
ReadyRejected(c) == calls[c].err # NoError

\* start() resumes after `await this.waitForReady()`
AfterReady(c) ==
  /\ mq # <<>> /\ Head(mq) = c /\ c # 0
  /\ calls[c].pc = "ready_settled"
  /\ LET s == calls[c].svc IN
       /\ lastAct' = Act("afterReady", s, c)
       /\ IF ~ReadyRejected(c)
          THEN /\ IF StartsHealthTimer(s)
                  THEN /\ timerSeq' = [timerSeq EXCEPT ![s] = @ + 1]
                       /\ timers' = [timers EXCEPT ![s] = @ \cup {timerSeq[s] + 1}]
                       /\ healthCheckTimer' =
                            [healthCheckTimer EXCEPT ![s] = timerSeq[s] + 1]
                  ELSE UNCHANGED <<timerSeq, timers, healthCheckTimer>>
               /\ status' = [status EXCEPT ![s] = Running]
               /\ emitted' = << <<"started", Running>>, <<"status", Running>> >>
               /\ calls' = Settle(calls, c, "ok", NoError)
               /\ returned' = Returned(calls, c, "ok", NoError)
               /\ mq' = SettleQ(Tail(mq), calls, c, "ok")
               /\ UNCHANGED error
          ELSE /\ status' = [status EXCEPT ![s] = Error]
               /\ error' = [error EXCEPT ![s] = calls[c].err]
               /\ emitted' = << <<"error", Error>>, <<"status", Error>> >>
               /\ calls' = Settle(calls, c, "err", calls[c].err)
               /\ returned' = Returned(calls, c, "err", calls[c].err)
               /\ mq' = SettleQ(Tail(mq), calls, c, "err")
               /\ UNCHANGED <<timerSeq, timers, healthCheckTimer>>
  /\ UNCHANGED <<agentVars, driver, announce, process, startTime, probes, goVars, lcVars, procs,
                 killTimers>>

\* ------------------------------------------------- BaseBackendService.stop
\* variant: stop() that only returns early when Stopped
StopWithoutStoppingGuard(s) == status[s] = Stopped

StopReturnsEarly(s) == status[s] = Stopped \/ status[s] = Stopping

\* killProcess(): resolves at once for a child that has an exit code or was
\* already signalled; otherwise SIGTERM now, SIGKILL from a 10 s timer, and
\* the promise resolves on the child's 'exit' event
KillResolvesAtOnce(p) == procs[p].st = "exitCode" \/ procs[p].killed

\* process.kill('SIGTERM') on a live child: the signal is delivered, or the
\* kill fails (EPERM: the child emits 'error', which has no listener and so
\* throws inside the promise executor, rejecting the promise of killProcess)
KillOutcomes(p) == {"sent", "throws"}

\* the setTimeout of killProcess: the processes it arms a SIGKILL for
ArmedSigkill(p) == {p}

\* stopHealthCheck(): clears the timer whose handle is stored
ClearedTimers(s) == IF healthCheckTimer[s] = 0 THEN {} ELSE {healthCheckTimer[s]}

\* stop() up to its first await (the promise of killProcess), or to its end
\* when the service holds no process
StopBody(s, c, cs, q) ==
  IF StopReturnsEarly(s) THEN
    /\ calls' = Settle(cs, c, "ok", NoError)
    /\ returned' = Returned(cs, c, "ok", NoError)
    /\ mq' = SettleQ(q, cs, c, "ok")
    /\ emitted' = <<>>
    /\ UNCHANGED <<status, error, startTime, healthCheckTimer, timers, procs,
                   killTimers>>
  ELSE
    /\ timers' = [timers EXCEPT ![s] = @ \ ClearedTimers(s)]
    /\ healthCheckTimer' = [healthCheckTimer EXCEPT ![s] = 0]
    /\ IF process[s] = 0
       THEN /\ status' = [status EXCEPT ![s] = Stopped]
            /\ startTime' = [startTime EXCEPT ![s] = FALSE]
            /\ error' = [error EXCEPT ![s] = NoError]
            /\ emitted' = << <<"status", Stopping>>, <<"stopped", Stopped>>,
                             <<"status", Stopped>> >>
            /\ calls' = Settle(cs, c, "ok", NoError)
            /\ returned' = Returned(cs, c, "ok", NoError)
            /\ mq' = SettleQ(q, cs, c, "ok")
            /\ UNCHANGED <<procs, killTimers>>
       ELSE /\ status' = [status EXCEPT ![s] = Stopping]
            /\ returned' = <<>>
            /\ emitted' = << <<"status", Stopping>> >>
            /\ UNCHANGED <<startTime, error>>
            /\ IF KillResolvesAtOnce(process[s])
               THEN /\ calls' = [cs EXCEPT ![c].pc = "kill_settled",
                                           ![c].child = process[s]]
                    /\ mq' = Append(q, c)
                    /\ UNCHANGED <<procs, killTimers>>
               ELSE \E k \in KillOutcomes(process[s]) :
                      IF k = "throws" /\ procs[process[s]].st = "live"
                      THEN /\ calls' = [cs EXCEPT ![c].pc = "kill_rejected",
                                                  ![c].child = process[s]]
                           /\ mq' = Append(q, c)
                           /\ UNCHANGED <<procs, killTimers>>
                      ELSE /\ procs' = KillProc(procs, process[s], "SIGTERM")
                           /\ killTimers' = killTimers \cup ArmedSigkill(process[s])
                           /\ calls' = [cs EXCEPT ![c].pc = "await_kill",
                                                  ![c].child = process[s]]
                           /\ mq' = q

\* an API caller invokes service.stop()
ApiStop(s) ==
  /\ driver = s
  /\ Len(calls) < MaxCalls
  /\ LET c == Len(calls) + 1 IN
       /\ StopBody(s, c, Append(calls, NewCall("stop", s, FALSE, "api")), mq)
       /\ lastAct' = Act("stop", s, c)
  /\ UNCHANGED <<agentVars, driver, announce, process, timerSeq, probes, goVars, lcVars>>

\* an API caller invokes service.restart(): stop() runs now, start() runs in
\* the continuation of `await this.stop()`
ApiRestart(s) ==
  /\ driver = s
  /\ Len(calls) < MaxCalls
  /\ CanSpawn
  /\ LET c == Len(calls) + 1 IN
       /\ StopBody(s, c, Append(calls, NewCall("stop", s, TRUE, "api")), mq)
       /\ lastAct' = Act("restart", s, c)
  /\ UNCHANGED <<agentVars, driver, announce, process, timerSeq, probes, goVars, lcVars>>

\* restart() resumes after `await this.stop()` and calls start()
RestartContinue(c) ==
  /\ mq # <<>> /\ Head(mq) = c /\ c # 0
  /\ calls[c].pc = "restart_mid"
  /\ StartBody(calls[c].svc, c, [calls EXCEPT ![c].op = "start", ![c].child = 0],
               Tail(mq), envUrl)
  /\ lastAct' = Act("start", calls[c].svc, c)
  /\ UNCHANGED <<agentVars, driver, announce, process, startTime, healthCheckTimer, timers, timerSeq,
                 probes, killTimers, goVars, lcVars>>

\* stop() resumes after `await this.killProcess(this.process)`
AfterKill(c) ==
  /\ mq # <<>> /\ Head(mq) = c /\ c # 0
  /\ calls[c].pc = "kill_settled"
  /\ LET s == calls[c].svc IN
       /\ process' = [process EXCEPT ![s] = 0]
       /\ status' = [status EXCEPT ![s] = Stopped]
       /\ startTime' = [startTime EXCEPT ![s] = FALSE]
       /\ error' = [error EXCEPT ![s] = NoError]
       /\ emitted' = << <<"stopped", Stopped>>, <<"status", Stopped>> >>
       /\ calls' = Settle(calls, c, "ok", NoError)
       /\ returned' = Returned(calls, c, "ok", NoError)
       /\ mq' = SettleQ(Tail(mq), calls, c, "ok")
       /\ lastAct' = Act("afterKill", s, c)
  /\ procs' = Reap(procs, process')
  /\ UNCHANGED <<agentVars, driver, announce, healthCheckTimer, timers, timerSeq, probes, goVars,
                 lcVars, killTimers>>

\* stop() resumes in its catch block after killProcess rejected
StopCatch(c) ==
  /\ mq # <<>> /\ Head(mq) = c /\ c # 0
  /\ calls[c].pc = "kill_rejected"
  /\ LET s == calls[c].svc IN
       /\ status' = [status EXCEPT ![s] = Error]
       /\ error' = [error EXCEPT ![s] = ErrKill]
       /\ emitted' = << <<"error", Error>>, <<"status", Error>> >>
       /\ calls' = Settle(calls, c, "err", ErrKill)
       /\ returned' = Returned(calls, c, "err", ErrKill)
       /\ mq' = SettleQ(Tail(mq), calls, c, "err")
       /\ lastAct' = Act("stopCatch", s, c)
  /\ UNCHANGED <<agentVars, driver, announce, process, startTime, healthCheckTimer, timers,
                 timerSeq, probes, goVars, lcVars, procs, killTimers>>

\* the 10 s timer of killProcess fires: process.kill('SIGKILL')
KillTimerFires(p) ==
  /\ mq = <<>>
  /\ p \in killTimers
  /\ killTimers' = killTimers \ {p}
  /\ procs' = KillProc(procs, p, "SIGKILL")
  /\ returned' = <<>>
  /\ emitted' = <<>>
  /\ lastAct' = Act("sigkillTimer", procs[p].svc, p)
  /\ UNCHANGED <<agentVars, driver, announce, svcVars, goVars, lcVars, calls, mq>>

\* ------------------------------------------------------- the child process
\* listeners of the child's 'exit' event, in registration order: the exit
\* listener of Go's waitForReady rejects, the once-listener of killProcess
\* resolves
ExitWaiters(p) ==
  {c \in 1..Len(calls) :
     /\ calls[c].child = p
     /\ \/ calls[c].pc = "await_kill"
        \/ calls[c].pc = "await_ready" /\ calls[c].svc = GoName}

RECURSIVE SortedIds(_)
SortedIds(S) ==
  IF S = {} THEN <<>>
  ELSE LET m == CHOOSE x \in S : \A y \in S : x <= y
       IN <<m>> \o SortedIds(S \ {m})

\* the child exits: with an exit code, or ended by a signal (a SIGKILL timer
\* still armed for it would find nothing to signal, and is dropped)
ProcExit(p, how) ==
  /\ mq = <<>>
  /\ p \in 1..Len(procs)
  /\ procs[p].st = "live"
  /\ procs' = Reap([procs EXCEPT ![p].st = how], process)
  /\ killTimers' = killTimers \ {p}
  /\ calls' = [c \in 1..Len(calls) |->
                 IF c \notin ExitWaiters(p) THEN calls[c]
                 ELSE IF calls[c].pc = "await_kill"
                      THEN [calls[c] EXCEPT !.pc = "kill_settled"]
                      ELSE ReadySettled(calls, c, ErrExited)[c]]
  /\ mq' = SortedIds(ExitWaiters(p))
  /\ returned' = <<>>
  /\ emitted' = <<>>
  /\ lastAct' = Act("exit", procs[p].svc, p)
  /\ UNCHANGED <<agentVars, driver, announce, svcVars, goVars, lcVars>>

\* ------------------------------------------------------------ health check
HealthTickRuns(s) == status[s] = Running

\* a tick of the interval timer: returns unless Running, else starts a probe
HealthTick(s) ==
  /\ mq = <<>>
  /\ timers[s] # {}
  /\ HealthTickRuns(s)
  /\ probes' = [probes EXCEPT ![s] = TRUE]
  /\ returned' = <<>>
  /\ emitted' = <<>>
  /\ lastAct' = Act("healthTick", s, 0)
  /\ UNCHANGED <<agentVars, driver, announce, status, process, startTime, error, healthCheckTimer,
                 timers, timerSeq, goVars, lcVars, procs, killTimers, calls, mq>>

\* variant: the health callback with its test inverted
ProbeTestInverted(s, healthy) == healthy

\* `if (!isHealthy)` after `await this.performHealthCheck()`; the status is
\* not looked at again
ProbeFailed(s, healthy) == ~healthy

\* performHealthCheck() returns: response.ok, or false when the fetch fails.
\* A fetch has no timeout and ticks keep coming while Running, so any number
\* of probes may be in flight: `more` says whether others remain after this
ProbeDone(s, healthy, more) ==
  /\ mq = <<>>
  /\ probes[s]
  /\ healthy => HealthEndpointUp(s)
  /\ probes' = [probes EXCEPT ![s] = more]
  /\ lastAct' = Act(IF healthy THEN "probeOk" ELSE "probeFail", s, 0)
  /\ returned' = <<>>
  /\ IF ProbeFailed(s, healthy)
     THEN /\ status' = [status EXCEPT ![s] = Error]
          /\ error' = [error EXCEPT ![s] = ErrHealth]
          /\ emitted' = << <<"error", Error>>, <<"status", Error>> >>
     ELSE /\ emitted' = <<>>
          /\ UNCHANGED <<status, error>>
  /\ UNCHANGED <<agentVars, driver, announce, process, startTime, healthCheckTimer, timers, timerSeq,
                 goVars, lcVars, procs, killTimers, calls, mq>>

\* ------------------------------------------- AppLifecycle.setupBackendServices
\* await this.serviceManager.startService('go-backend')
LcStartGo ==
  /\ driver = "lifecycle"
  /\ lc.pc = "setup"
  /\ CanSpawn
  /\ LET c == Len(calls) + 1 IN
       /\ StartBody(GoName, c, Append(calls, NewCall("start", GoName, FALSE, "lifecycle")),
                    mq, envUrl)
       /\ lc' = [pc |-> "await_go", call |-> c]
       /\ lastAct' = Act("start", GoName, c)
  /\ UNCHANGED <<agentVars, driver, announce, process, startTime, healthCheckTimer, timers,
                 timerSeq, probes, killTimers, goVars, envUrl, cmBaseUrl>>

\* variant: a failed start of the Go backend that does not leave the try block
GoFailureIgnored == FALSE

\* the try block gives up when startService('go-backend') rejected
GoStartFailed == calls[lc.call].res = "err"

\* the address is handed on when the Go service is running and has a base URL
HandsOnBaseUrl == status[GoName] = Running /\ baseUrl # <<>>

\* the continuation of the first await: hand the base URL on, then
\* await this.serviceManager.startService('python-backend')
LcAfterGo ==
  /\ mq # <<>> /\ Head(mq) = 0
  /\ lc.pc = "await_go"
  /\ IF GoStartFailed
     THEN /\ lc' = [pc |-> "failed", call |-> 0]
          /\ mq' = Append(Tail(mq), 0)
          /\ returned' = <<>>
          /\ emitted' = <<>>
          /\ lastAct' = Act("setupCatch", GoName, 0)
          /\ UNCHANGED <<status, error, procs, calls, envUrl, cmBaseUrl>>
     ELSE /\ CanSpawn
          /\ IF HandsOnBaseUrl
             THEN cmBaseUrl' = baseUrl /\ envUrl' = baseUrl
             ELSE UNCHANGED <<cmBaseUrl, envUrl>>
          /\ LET c == Len(calls) + 1 IN
               /\ StartBody(PythonName, c,
                            Append(calls, NewCall("start", PythonName, FALSE, "lifecycle")),
                            Tail(mq), envUrl')
               /\ lc' = [pc |-> "await_py", call |-> c]
               /\ lastAct' = Act("start", PythonName, c)
  /\ UNCHANGED <<agentVars, driver, announce, process, startTime, healthCheckTimer, timers,
                 timerSeq, probes, killTimers, goVars>>

\* the continuation of the second await: the end of the try block or the catch
LcAfterPython ==
  /\ mq # <<>> /\ Head(mq) = 0
  /\ lc.pc = "await_py"
  /\ lc' = [pc |-> IF calls[lc.call].res = "err" THEN "failed" ELSE "started",
            call |-> 0]
  /\ mq' = Append(Tail(mq), 0)
  /\ returned' = <<>>
  /\ emitted' = <<>>
  /\ lastAct' = Act(IF calls[lc.call].res = "err" THEN "setupCatch" ELSE "setupDone",
                    PythonName, 0)
  /\ UNCHANGED <<agentVars, driver, announce, svcVars, goVars, envUrl, cmBaseUrl, procs,
                 killTimers, calls>>

\* ------------------------------------------------- AppLifecycle.initialize
\* the catch of setupBackendServices only logs: the promise that
\* initialize() awaits resolves also when a service failed to start
SetupRethrows == FALSE

\* initialize() resumes after `await this.setupBackendServices()`: it creates
\* the main window, registers the IPC handlers and the conversation manager
\* and the application events; its own catch (error dialog, app.quit()) is
\* entered only when the awaited promise rejected
LcInitialized ==
  /\ mq # <<>> /\ Head(mq) = 0
  /\ lc.pc \in {"started", "failed"}
  /\ lc' = [pc |-> IF lc.pc = "failed" /\ SetupRethrows THEN "aborted" ELSE "ready",
            call |-> 0]
  /\ mq' = Tail(mq)
  /\ returned' = <<>>
  /\ emitted' = <<>>
  /\ lastAct' = Act(IF lc.pc = "failed" /\ SetupRethrows THEN "initCatch" ELSE "initDone",
                    "", 0)
  /\ UNCHANGED <<agentVars, driver, announce, svcVars, goVars, envUrl, cmBaseUrl, procs,
                 killTimers, calls>>

\* ----------------------------------- AppLifecycle.shutdown / stopAll
\* 'before-quit' (registered once initialize() got past the services):
\* shutdown() awaits stopAll(), whose services.map(...) calls stop() on each
\* service in registration order before anything else can run; this is the
\* call on the first service, with the lifecycle keeping the turn
LcShutdown ==
  /\ driver = "lifecycle"
  /\ mq = <<>>
  /\ lc.pc = "ready"
  /\ LET c == Len(calls) + 1 IN
       /\ StopBody(GoName, c, Append(calls, NewCall("stop", GoName, FALSE, "stopAll")),
                   <<0>>)
       /\ lc' = [pc |-> "stop_all", call |-> 0]
       /\ lastAct' = Act("stop", GoName, c)
  /\ UNCHANGED <<agentVars, driver, announce, process, timerSeq, probes, goVars, envUrl, cmBaseUrl>>

\* the call of stop() on the second service, then `await Promise.all(...)`
LcStopAllNext ==
  /\ mq # <<>> /\ Head(mq) = 0
  /\ lc.pc = "stop_all"
  /\ LET c == Len(calls) + 1 IN
       /\ StopBody(PythonName, c,
                   Append(calls, NewCall("stop", PythonName, FALSE, "stopAll")), Tail(mq))
       /\ lc' = [pc |-> "await_stops", call |-> 0]
       /\ lastAct' = Act("stop", PythonName, c)
  /\ UNCHANGED <<agentVars, driver, announce, process, timerSeq, probes, goVars, envUrl, cmBaseUrl>>

\* Promise.all rejected: some wrapper promise of stopAll() rejected
StopAllRejected == \E d \in StopAllCalls(calls) : calls[d].res = "err"

\* shutdown() resumes after `await this.serviceManager.stopAll()`: it closes
\* the window and exits, or (catch) exits with code 1
LcAfterStopAll ==
  /\ mq # <<>> /\ Head(mq) = 0
  /\ lc.pc = "await_stops"
  /\ lc' = [pc |-> IF StopAllRejected THEN "exit_1" ELSE "exit_0", call |-> 0]
  /\ mq' = Tail(mq)
  /\ returned' = <<>>
  /\ emitted' = <<>>
  /\ lastAct' = Act(IF StopAllRejected THEN "shutdownCatch" ELSE "shutdownDone", "", 0)
  /\ UNCHANGED <<agentVars, driver, announce, svcVars, goVars, envUrl, cmBaseUrl, procs,
                 killTimers, calls>>

\* ============================================================== McpClientManager
\* `baseUrl.replace(/\/+$/, '')`
RECURSIVE StripSlashes(_)
StripSlashes(t) ==
  IF t # <<>> /\ t[Len(t)] = "/" THEN StripSlashes(Sub(t, 1, Len(t) - 1)) ELSE t

\* connect / ensureConnected: the endpoint of a base URL
Endpoint(url) == StripSlashes(url) \o <<"/", "m", "c", "p">>

\* the base URLs passed to listTools and callTool
BridgeUrls == {UrlV4, UrlV4 \o <<"/">>, UrlPreset}

\* an optional property of a listed tool: absent, null, or a value; a value
\* is a sequence of strings, the empty string the empty sequence
OptAbsent == [tag |-> "absent", v |-> <<>>]
OptNull == [tag |-> "null", v |-> <<>>]
Str(v) == [tag |-> "value", v |-> v]

\* a tool without an input schema, one whose schema is an empty object, one
\* whose schema has every field
NoSchema ==
  [tag |-> "absent", type |-> OptAbsent, properties |-> OptAbsent, required |-> OptAbsent,
   additionalProperties |-> OptAbsent]
BareSchema == [NoSchema EXCEPT !.tag = "object"]
FullSchema ==
  [tag |-> "object", type |-> Str(<<"object">>), properties |-> Str(<<"keyword">>),
   required |-> Str(<<"keyword">>), additionalProperties |-> Str(<<"false">>)]

Tool(name, description, inputSchema) ==
  [name |-> name, description |-> description, inputSchema |-> inputSchema]

\* the tool lists the automation service may answer `tools/list` with
ToolLists == {<<>>, <<Tool("search_feeds", Str(<<"Search feeds">>), BareSchema)>>}

\* what the remote `tools/list` does: it rejects, or answers with a list
FetchOutcomes == [ok : {FALSE}, tools : {<<>>}] \cup [ok : {TRUE}, tools : ToolLists]

\* what the remote `tools/call` does: it answers with a text item, an image
\* item, no content, an error result, or it rejects
CallOutcomes == {"text", "image", "none", "isError", "reject"}

\* what a call of the manager gives its caller: kind is "void", "tools",
\* "result" or "throws"
BridgeRes(kind, list, content, isError) ==
  [kind |-> kind, tools |-> list, content |-> content, isError |-> isError]
Throws == BridgeRes("throws", <<>>, <<>>, FALSE)

\* disconnect(): close and terminateSession are called on what is there, their
\* failures are caught, and the cache is dropped
disconnect(b) ==
  [b |-> [b EXCEPT !.client = FALSE, !.transport = FALSE, !.toolsCache = <<>>],
   threw |-> FALSE,
   remote |-> (IF b.client THEN <<"close">> ELSE <<>>)
                \o (IF b.transport THEN <<"terminateSession">> ELSE <<>>)]

\* connect(baseUrl): nothing for the endpoint already connected to; otherwise
\* disconnect, then a new client whose connect resolves (connOk) or rejects
connect(b, url, connOk) ==
  IF b.endpoint = <<Endpoint(url)>> /\ b.client
  THEN [b |-> b, threw |-> FALSE, remote |-> <<>>]
  ELSE LET d == disconnect(b) IN
         [b |-> [d.b EXCEPT !.endpoint = <<Endpoint(url)>>, !.transport = TRUE,
                            !.client = connOk, !.connecting = FALSE],
          threw |-> ~connOk,
          remote |-> d.remote \o <<"connect">>]

\* ensureConnected(baseUrl); url = <<>> is an omitted baseUrl
ensureConnected(b, url, connOk) ==
  IF url # <<>> /\ b.endpoint # <<Endpoint(url)>>
  THEN connect(b, url, connOk)
  ELSE IF ~b.client
  THEN IF b.endpoint = <<>> /\ url # <<>>
       THEN connect(b, url, connOk)
       ELSE [b |-> b, threw |-> ~b.connecting, remote |-> <<>>]
  ELSE [b |-> b, threw |-> FALSE, remote |-> <<>>]

\* variant: an empty list taken for no list
CacheHitNonEmpty(c) == IF c = <<>> THEN FALSE ELSE c[1] # <<>>

\* `if (this.toolsCache)`
CacheHit(c) == c # <<>>

\* listTools(baseUrl)
listTools(b, url, connOk, fetch) ==
  LET e == ensureConnected(b, url, connOk) IN
    IF e.threw \/ ~e.b.client
    THEN [b |-> e.b, res |-> Throws, remote |-> e.remote]
    ELSE IF CacheHit(e.b.toolsCache)
    THEN [b |-> e.b, res |-> BridgeRes("tools", e.b.toolsCache[1], <<>>, FALSE),
          remote |-> e.remote]
    ELSE IF ~fetch.ok
    THEN [b |-> e.b, res |-> Throws, remote |-> e.remote \o <<"tools/list failed">>]
    ELSE [b |-> [e.b EXCEPT !.toolsCache = <<fetch.tools>>],
          res |-> BridgeRes("tools", fetch.tools, <<>>, FALSE),
          remote |-> e.remote \o <<"tools/list">>]

ImageContent == <<"[", "i", "m", "a", "g", "e", "]">>

\* callTool(name, args, baseUrl): the text parts of the response joined; the
\* catch block logs and throws the error again
callTool(b, url, connOk, out) ==
  LET e == ensureConnected(b, url, connOk) IN
    IF e.threw \/ ~e.b.client
    THEN [b |-> e.b, res |-> Throws, remote |-> e.remote]
    ELSE [b |-> e.b,
          res |-> IF out = "reject" THEN Throws
                  ELSE BridgeRes("result", <<>>,
                                 IF out = "image" THEN ImageContent
                                 ELSE IF out = "none" THEN <<>>
                                 ELSE <<"r", "e", "s", "u", "l", "t">>,
                                 out = "isError"),
          remote |-> e.remote \o <<"tools/call">>]

\* did the call go through a disconnect, did it fetch a tool list
Reconnected(remote) == \E i \in 1..Len(remote) : remote[i] = "connect"
Fetched(remote) == \E i \in 1..Len(remote) : remote[i] = "tools/list"

\* what a call of the manager leaves behind
BridgeReturns(op, url, o) ==
  /\ driver = "bridge"
  /\ bCount < MaxBridgeCalls
  /\ mcp' = o.b
  /\ bLast' = [op |-> op, url |-> url, res |-> o.res, remote |-> o.remote]
  /\ bCount' = bCount + 1
  /\ bFetches' = (IF Reconnected(o.remote) \/ op = "disconnect" THEN 0 ELSE bFetches)
                   + (IF Fetched(o.remote) THEN 1 ELSE 0)
  /\ UNCHANGED <<chat, messages, isProcessing, tasks, llmSent, catalog, errorListener,
                 aEmitted, aAct, backendVars, defVars, sessionVars, cmBaseUrl>>

BListTools(url, connOk, fetch) ==
  BridgeReturns("listTools", url, listTools(mcp, url, connOk, fetch))

BCallTool(url, connOk, out) ==
  BridgeReturns("callTool", url, callTool(mcp, url, connOk, out))

BDisconnect ==
  LET d == disconnect(mcp) IN
    BridgeReturns("disconnect", <<>>,
                  [b |-> d.b, res |-> BridgeRes("none", <<>>, <<>>, FALSE), remote |-> d.remote])

\* =========================================================== ConversationManager
\* text is a sequence of characters; a Chinese character is written as its
\* code point
MAX_ITERATIONS == 6

UpperCase ==
  <<"A", "B", "C", "D", "E", "F", "G", "H", "I", "J", "K", "L", "M", "N", "O", "P", "Q",
    "R", "S", "T", "U", "V", "W", "X", "Y", "Z">>
LowerCase ==
  <<"a", "b", "c", "d", "e", "f", "g", "h", "i", "j", "k", "l", "m", "n", "o", "p", "q",
    "r", "s", "t", "u", "v", "w", "x", "y", "z">>

\* String.prototype.toLowerCase
toLowerCase(t) ==
  [i \in 1..Len(t) |->
     IF \E j \in 1..Len(UpperCase) : UpperCase[j] = t[i]
     THEN LowerCase[CHOOSE j \in 1..Len(UpperCase) : UpperCase[j] = t[i]]
     ELSE t[i]]

\* String.prototype.includes
includes(t, kw) ==
  \E i \in 1..(Len(t) - Len(kw) + 1) : Sub(t, i, i + Len(kw) - 1) = kw

KwSearchZh == <<"U+641C", "U+7D22">>
KwFindZh == <<"U+67E5", "U+627E">>
KwPublishZh == <<"U+53D1", "U+5E03">>
KwLoginZh == <<"U+767B", "U+5F55">>
KwViewZh == <<"U+67E5", "U+770B">>
KwGetZh == <<"U+83B7", "U+53D6">>
KwList == <<"l", "i", "s", "t">>
KwSearch == <<"s", "e", "a", "r", "c", "h">>
KwPublish == <<"p", "u", "b", "l", "i", "s", "h">>
KwAgent == <<"a", "g", "e", "n", "t">>
KwLogin == <<"l", "o", "g", "i", "n">>

\* the keywords of needsToolCall
NeedKeywords ==
  {KwSearchZh, KwFindZh, KwPublishZh, KwLoginZh, KwViewZh, KwGetZh, KwList, KwSearch,
   KwPublish, KwAgent}

\* the user texts submitted: one without a keyword, and one with a keyword
\* that matches only after lower-casing and selects publish_content
Texts ==
  { <<"h", "i">>,
    <<"P", "u", "b", "l", "i", "s", "h">> }

\* the content of the last user message of the history, lower-cased
\* (null when there is none)
LastUserMessage(msgs) ==
  LET U == {i \in 1..Len(msgs) : msgs[i].role = "user"} IN
    IF U = {} THEN <<>>
    ELSE toLowerCase(msgs[CHOOSE i \in U : \A j \in U : j <= i].text)

\* runAgentLoop: needsToolCall
needsToolCall(msgs) ==
  \E l \in {LastUserMessage(msgs)} :
    l # <<>> /\ \E kw \in NeedKeywords : includes(l, kw)

\* runAgentLoop: suggestedTool
suggestedTool(l) ==
  IF includes(l, KwSearchZh) \/ includes(l, KwSearch) THEN "search_feeds"
  ELSE IF includes(l, KwPublishZh) \/ includes(l, KwPublish) THEN "publish_content"
  ELSE IF includes(l, KwLoginZh) \/ includes(l, KwLogin) THEN "check_login_status"
  ELSE "search_feeds"

\* ------------------------------------------------------------ task records
NoResponse == [tools |-> FALSE, fin |-> "null"]
NoRequest ==
  [it |-> 0, toolChoice |-> "none", corrective |-> FALSE, emphasis |-> FALSE,
   stream |-> FALSE]

\* a sendUserMessage call: pc is "queued" (chained on processingQueue),
\* "refresh", "catalog", "infer", "tool" (the await it is suspended at) or
\* "done"; res is what its caller got
NewTask(text) ==
  [text |-> text, pc |-> "queued", iterations |-> 0, needs |-> FALSE,
   hasCalledTool |-> FALSE, lastResponse |-> NoResponse, todo |-> 0, turn |-> 0,
   lastUserMessage |-> <<>>, req |-> NoRequest, res |-> "pending"]

SettledTask(r) ==
  [text |-> <<>>, pc |-> "done", iterations |-> 0, needs |-> FALSE,
   hasCalledTool |-> FALSE, lastResponse |-> NoResponse, todo |-> 0, turn |-> 0,
   lastUserMessage |-> <<>>, req |-> NoRequest, res |-> r]

Msg(role, r, kind, it, k) ==
  [role |-> role, req |-> r, kind |-> kind, it |-> it, k |-> k, text |-> <<>>,
   error |-> "none", toolName |-> "", isError |-> FALSE]
UserMsg(r, text) ==
  [role |-> "user", req |-> r, kind |-> "text", it |-> 0, k |-> 0, text |-> text,
   error |-> "none", toolName |-> "", isError |-> FALSE]

\* the errors the try block of sendUserMessage can throw, by their message
ErrNoBackend == "backend not started"
ErrNoApiKey == "no LLM API key"
ErrListTools == "listTools failed"
ErrTransport == "inference request failed"
ErrNoId == "cannot read id of undefined"
ErrNoToolCall == "model did not call tools"
ErrToolCall == "tool call failed"

\* variant: a failure reported as an ordinary reply
ErrorMsgUnflagged(r, why) == Msg("assistant", r, "answer", 0, 0)

\* the message of the catch block: the apology followed by error.message
ErrorMsg(r, why) == [Msg("assistant", r, "error", 0, 0) EXCEPT !.error = why]

AAct(o, r) == [op |-> o, req |-> r]

\* ------------------------------------------------- ConversationManager.enqueue
\* variant: a task that starts without waiting for the task before it
StartsUnchained(r) == TRUE

\* variant: a rejection that is handed on along processingQueue
QueuePoisoned(r) == IF r = 1 THEN TRUE ELSE tasks[r - 1].res = "state"

\* `this.processingQueue.then(runTask, runTask)`: the task runs once the
\* task before it has settled, whether that one resolved or rejected
PrevSettled(r) == IF r = 1 THEN TRUE ELSE tasks[r - 1].pc = "done"

\* the ipc handler calls sendUserMessage(content): enqueue chains the task
Submit(text) ==
  /\ driver \in {"agent", "tools", "reset", "lifecycle"}
  /\ Len(tasks) < MaxRequests
  /\ tasks' = Append(tasks, NewTask(text))
  /\ aAct' = AAct("submit", Len(tasks) + 1)
  /\ aEmitted' = <<>>
  /\ UNCHANGED <<messages, isProcessing, llmSent, catalog, errorListener>>
  /\ UNCHANGED <<backendVars, clientVars, defVars, sessionVars, cmBaseUrl>>

\* --------------------------------------- ConversationManager.sendUserMessage
\* the catch block ends with this.emit('error', ...): without an 'error'
\* listener the emitter throws it, and the task rejects after the finally
CatchOutcome == IF errorListener THEN "state" ELSE "rejected"

\* variant: a finally block that leaves the status alone
StatusLeftAlone(b) == b

\* `finally { this.updateStatus(false) }`
StatusAfterFinally(b) == FALSE

\* catch, finally, return: the error message is appended, emit('error') is
\* called, the status reset (aEmitted is the sequence of emit calls)
Fail(r, msgs, ev, why) ==
  /\ messages' = Append(msgs, ErrorMsg(r, why))
  /\ isProcessing' = StatusAfterFinally(isProcessing)
  /\ tasks' = [tasks EXCEPT ![r] = SettledTask(CatchOutcome)]
  /\ aEmitted' = ev \o << <<"message", "error">>, <<"error", why>>, <<"status", "false">> >>

\* runAgentLoop returned a response: with no streamed placeholder the
\* assistant message is appended whole; finally, return
Finish(r, t, msgs, ev) ==
  /\ messages' = Append(msgs, Msg("assistant", r, "answer", t.iterations, 0))
  /\ isProcessing' = StatusAfterFinally(isProcessing)
  /\ tasks' = [tasks EXCEPT ![r] = SettledTask("state")]
  /\ aEmitted' = ev \o << <<"message", "answer">>, <<"status", "false">> >>

\* ------------------------------------------ ConversationManager.runAgentLoop
\* the corrective instruction and the forced tool of the second iteration
ForcesTool(t) ==
  /\ t.iterations + 1 = 2
  /\ t.needs /\ ~t.hasCalledTool
  /\ ~t.lastResponse.tools /\ t.lastResponse.fin = "stop"

\* the first iteration's own branch: the request with the emphasis message;
\* toolDefinitions is what ensureTools has just stored
Emphasises(t) == t.iterations + 1 = 1 /\ t.needs /\ catalog' > 0

\* variant: streaming on every iteration
AlwaysStream(t) == TRUE

\* shouldStream
shouldStream(t) ==
  ~t.needs \/ t.hasCalledTool \/ t.iterations + 1 >= MAX_ITERATIONS - 1

\* the parameters of createChatCompletion in the iteration about to run
Request(t) ==
  [it |-> t.iterations + 1,
   toolChoice |-> IF ForcesTool(t) THEN suggestedTool(t.lastUserMessage) ELSE "none",
   corrective |-> ForcesTool(t),
   emphasis |-> Emphasises(t),
   stream |-> IF Emphasises(t) THEN FALSE ELSE shouldStream(t)]

\* variant: a loop with no bound on its iterations
LoopUnbounded(t) == TRUE

\* `while (iterations < MAX_ITERATIONS)`
LoopGoesOn(t) == t.iterations < MAX_ITERATIONS

\* the head of the loop: the next request is sent, or the loop is left and
\* sendUserMessage appends lastResponse as the answer
Continue(r, t, msgs, ev) ==
  IF LoopGoesOn(t)
  THEN /\ tasks' = [tasks EXCEPT ![r] = [t EXCEPT !.iterations = @ + 1, !.pc = "infer",
                                                  !.req = Request(t)]]
       /\ llmSent' = Append(llmSent, Request(t))
       /\ messages' = msgs
       /\ aEmitted' = ev
       /\ UNCHANGED isProcessing
  ELSE /\ Finish(r, t, msgs, ev)
       /\ UNCHANGED llmSent

\* variant: a request that goes on without a backend address
NoBackendIgnored(url) == FALSE

\* `if (!this.backendBaseUrl)`
NoBackend(url) == url = <<>>

\* the task starts: the user message is appended, the status set; without a
\* backend address the try block throws at once
StartTask(r) ==
  /\ tasks[r].pc = "queued"
  /\ PrevSettled(r)
  /\ LET msgs == Append(messages, UserMsg(r, tasks[r].text))
         ev == << <<"message", "user">>, <<"status", "true">> >> IN
       IF NoBackend(cmBaseUrl)
       THEN Fail(r, msgs, ev, ErrNoBackend)
       ELSE /\ messages' = msgs
            /\ isProcessing' = TRUE
            /\ tasks' = [tasks EXCEPT ![r].pc = "refresh"]
            /\ aEmitted' = ev
  /\ llmSent' = <<>>
  /\ aAct' = AAct("start", r)
  /\ UNCHANGED <<catalog, errorListener, backendVars, clientVars, defVars, sessionVars, cmBaseUrl>>

\* `await this.refreshLlmClient()` returns: with no configuration there is
\* no client and the try block throws
AfterRefresh(r, hasConfig) ==
  /\ tasks[r].pc = "refresh"
  /\ IF hasConfig
     THEN /\ tasks' = [tasks EXCEPT ![r].pc = "catalog"]
          /\ aEmitted' = <<>>
          /\ UNCHANGED <<messages, isProcessing>>
     ELSE Fail(r, messages, <<>>, ErrNoApiKey)
  /\ aAct' = AAct("refresh", r)
  /\ UNCHANGED <<llmSent, catalog, errorListener, backendVars, clientVars, defVars, sessionVars, cmBaseUrl>>

\* `await this.ensureTools()`: listTools(this.backendBaseUrl) throws, or
\* returns the tools that become toolDefinitions; then runAgentLoop starts
\* a ?? b
Coalesce(a, b) == IF a.tag \in {"absent", "null"} THEN b ELSE a

\* the schema ensureTools hands on
Parameters(schema) ==
  IF schema.tag # "object"
  THEN [type |-> Str(<<"object">>), properties |-> Str(<<>>), required |-> OptAbsent,
        additionalProperties |-> Str(<<"true">>)]
  ELSE [type |-> Coalesce(schema.type, Str(<<"object">>)),
        properties |-> Coalesce(schema.properties, Str(<<>>)),
        required |-> Coalesce(schema.required, Str(<<>>)),
        additionalProperties |-> schema.additionalProperties]

\* tool.description ?? tool.name ?? `U+6267U+884C ${tool.name} U+64CDU+4F5C`
Description(tool) ==
  Coalesce(tool.description,
           Coalesce(Str(<<tool.name>>),
                    Str(<<"U+6267U+884C ", tool.name, " U+64CDU+4F5C">>))).v

ToolDefinition(tool) ==
  [type |-> "function",
   function |-> [name |-> tool.name, description |-> Description(tool),
                 parameters |-> Parameters(tool.inputSchema)]]

\* ensureTools with the manager answering: what it leaves in the manager and
\* in tools and toolDefinitions, or that it threw
ensureTools(b, url, connOk, fetch) ==
  LET l == listTools(b, url, connOk, fetch) IN
    IF l.res.kind = "tools"
    THEN [b |-> l.b, threw |-> FALSE, tools |-> l.res.tools,
          toolDefinitions |->
            [i \in 1..Len(l.res.tools) |-> ToolDefinition(l.res.tools[i])]]
    ELSE [b |-> l.b, threw |-> TRUE, tools |-> tools, toolDefinitions |-> toolDefinitions]

AfterCatalog(r, connOk, fetch) ==
  /\ tasks[r].pc = "catalog"
  /\ \E o \in {ensureTools(mcp, cmBaseUrl, connOk, fetch)} :
       /\ mcp' = o.b
       /\ tools' = o.tools
       /\ toolDefinitions' = o.toolDefinitions
       /\ catalog' = IF o.threw THEN catalog ELSE Len(o.tools)
       /\ IF o.threw
          THEN Fail(r, messages, <<>>, ErrListTools) /\ UNCHANGED llmSent
          ELSE \E t \in {[tasks[r] EXCEPT !.needs = needsToolCall(messages),
                                          !.lastUserMessage = LastUserMessage(messages)]} :
                 Continue(r, t, messages, <<>>)
  /\ aAct' = AAct("catalog", r)
  /\ UNCHANGED <<errorListener, backendVars, bLast, bCount, bFetches, chat, sessionVars,
                 cmBaseUrl>>

\* a model turn with tool calls asks for two, which run one after the other
ToolCallCounts == {2}

\* what the inference service may answer: tool calls, text with finish
\* reason stop or length (in chunk events, or whole in the done event), or
\* a failure of the request
Responses ==
  [kind : {"tools"}, n : ToolCallCounts, chunks : {FALSE}]
    \cup [kind : {"stop", "length"}, n : {0}, chunks : BOOLEAN]
    \cup [kind : {"reject"}, n : {0}, chunks : {FALSE}]

\* variant: the error held back for one more iteration
NoToolCallErrorLate(t, fin) ==
  t.needs /\ ~t.hasCalledTool /\ fin = "stop" /\ t.iterations >= 3

\* the error for a model that does not call tools
NoToolCallError(t, fin) ==
  t.needs /\ ~t.hasCalledTool /\ fin = "stop" /\ t.iterations >= 2

\* the history length up to which the inference service answers with tool calls
HistoryBound == IF driver = "agent" THEN MaxMessages ELSE MaxToolHistory

\* variant: the chunk written over the message at the end of the history
streamOverLast(msgs, r, it) ==
  [msgs EXCEPT ![Len(msgs)] = Msg("assistant", r, "chunk", it, 0)]

\* streamCallback on the first content chunk (assistantMessageId is null):
\* the placeholder is appended
streamCallback(msgs, r, it) == Append(msgs, Msg("assistant", r, "chunk", it, 0))

\* createChatCompletion settles. A streamed content chunk goes to the stream
\* callback, which appends the placeholder message and then reads the id of
\* what appendMessage returned: appendMessage returns nothing, the callback
\* throws and the request rejects
Response(r, resp) ==
  /\ tasks[r].pc = "infer"
  /\ UNCHANGED catalog
  /\ resp.kind = "tools" => Len(messages) + 1 + resp.n <= HistoryBound
  /\ LET t == tasks[r] IN
       IF resp.kind = "reject"
       THEN Fail(r, messages, <<>>, ErrTransport) /\ UNCHANGED llmSent
       ELSE IF resp.chunks /\ t.req.stream
       THEN /\ Fail(r, streamCallback(messages, r, t.iterations),
                    << <<"message", "chunk">> >>, ErrNoId)
            /\ UNCHANGED llmSent
       ELSE IF resp.kind = "tools"
       THEN /\ messages' = Append(messages,
                                  Msg("assistant", r, "toolCalls", t.iterations, resp.n))
            /\ tasks' = [tasks EXCEPT ![r] = [t EXCEPT !.hasCalledTool = TRUE,
                                                       !.turn = resp.n, !.todo = resp.n,
                                                       !.pc = "tool"]]
            /\ aEmitted' = << <<"message", "toolCalls">> >>
            /\ UNCHANGED <<isProcessing, llmSent>>
       ELSE LET t1 == [t EXCEPT !.lastResponse = [tools |-> FALSE, fin |-> resp.kind]] IN
              IF t.req.emphasis THEN Continue(r, t1, messages, <<>>)
              ELSE IF NoToolCallError(t1, resp.kind)
                   THEN Fail(r, messages, <<>>, ErrNoToolCall) /\ UNCHANGED llmSent
                   ELSE Finish(r, t1, messages, <<>>) /\ UNCHANGED llmSent
  /\ aAct' = AAct(resp.kind, r)
  /\ UNCHANGED <<errorListener, backendVars, clientVars, defVars, sessionVars, cmBaseUrl>>

\* variant: the calls of a turn taken from the end of the list
NextCallReversed(t) == t.todo

\* `for (const call of response.toolCalls)`: the position in the returned
\* list of the call whose result is being awaited
NextCall(t) == t.turn - t.todo + 1

\* the names of the calls t1, t2 of a model turn
ToolCallNames == <<"search_feeds", "publish_content">>

\* what `this.mcpManager.callTool(...)` does: it returns text, returns no
\* text, returns the remote tool's own error result, or throws
ToolOutcomes == {"text", "empty", "remoteError", "throws"}

TextContent == <<"r", "e", "s", "u", "l", "t">>
NoTextContent == <<"(", "n", "o", " ", "t", "e", "x", "t", ")">>
FailedContent(name) == <<"c", "a", "l", "l", " ", name, " ", "f", "a", "i", "l", "e", "d">>

\* variant: executeToolCall without its try/catch
ToolCallUncaught(out) == out = "throws"

\* executeToolCall: does the exception of callTool leave it
ToolCallEscapes(out) == FALSE

\* executeToolCall: the CallToolResponse it returns
executeToolCall(name, out) ==
  IF out = "throws" THEN [content |-> FailedContent(name), isError |-> TRUE]
  ELSE IF out = "empty" THEN [content |-> NoTextContent, isError |-> FALSE]
  ELSE [content |-> TextContent, isError |-> out = "remoteError"]

\* the tool message of result res for call k of the turn
ToolResultMsg(r, it, k, res) ==
  [Msg("tool", r, "toolResult", it, k) EXCEPT !.text = res.content,
                                              !.toolName = ToolCallNames[k],
                                              !.isError = res.isError]

\* `await this.executeToolCall(call)` returns: the tool result is appended;
\* after the last call of the turn the loop goes on
ToolDone(r, out) ==
  /\ tasks[r].pc = "tool"
  /\ UNCHANGED catalog
  /\ LET t == tasks[r]
         msgs == Append(messages,
                        ToolResultMsg(r, t.iterations, NextCall(t),
                                      executeToolCall(ToolCallNames[NextCall(t)], out)))
         ev == << <<"message", "toolResult">> >> IN
       IF ToolCallEscapes(out)
       THEN Fail(r, messages, <<>>, ErrToolCall) /\ UNCHANGED llmSent
       ELSE IF t.todo > 1
       THEN /\ messages' = msgs
            /\ tasks' = [tasks EXCEPT ![r].todo = @ - 1]
            /\ aEmitted' = ev
            /\ UNCHANGED <<isProcessing, llmSent>>
       ELSE Continue(r, [t EXCEPT !.todo = 0,
                                  !.lastResponse = [tools |-> TRUE, fin |-> "tool_calls"]],
                     msgs, ev)
  /\ aAct' = AAct("toolDone", r)
  /\ UNCHANGED <<errorListener, backendVars, clientVars, defVars, sessionVars, cmBaseUrl>>

\* ------------------------------------ ConversationManager.resetConversation
MaxResets == 1     \* resetConversation() calls in one behaviour
MaxSnapshots == 1  \* getState() calls of the ipc handler in one behaviour

\* variant: the system prompt appended to the array that is there
resetInPlace(msgs) == Append(msgs, SystemMsg)

\* `this.messages = []; this.appendMessage({role: 'system', ...})`: a new
\* array that holds the system prompt
resetConversation(msgs) == Append(<<>>, SystemMsg)

\* getState().messages: `[...this.messages]`, a copy of the array
getState(msgs) == msgs

\* the ConversationGetState handler returns getState()
GetState ==
  /\ driver = "reset"
  /\ Len(snapshot) < MaxSnapshots + resets
  /\ snapshot' = Append(snapshot, getState(messages))
  /\ aAct' = AAct("getState", 0)
  /\ aEmitted' = <<>>
  /\ UNCHANGED <<messages, isProcessing, tasks, llmSent, catalog, errorListener, resets,
                 replay, backendVars, clientVars, defVars, cmBaseUrl>>

\* the ConversationReset handler: resetConversation(), which neither waits
\* for processingQueue nor touches isProcessing, then `return getState()`
Reset ==
  /\ driver = "reset"
  /\ resets < MaxResets
  /\ messages' = resetConversation(messages)
  /\ snapshot' = Append(snapshot, getState(messages'))
  /\ resets' = resets + 1
  /\ aAct' = AAct("reset", 0)
  /\ aEmitted' = << <<"message", "system">>, <<"status", "false">> >>
  /\ UNCHANGED <<isProcessing, tasks, llmSent, catalog, errorListener, replay,
                 backendVars, clientVars, defVars, cmBaseUrl>>

\* -------------------------------------- ConversationManager.appendMessage
MaxReplay == 2     \* messages appended to each of the two sessions replayed

\* the values randomUUID() and Date.now() return
Uuids == 0..MaxReplay
Clock == 0..1

\* `{id: randomUUID(), createdAt: Date.now(), ...message}` is pushed
appendMessage(msgs, message, id, now) ==
  Append(msgs, [id |-> id, createdAt |-> now, message |-> message])

\* randomUUID() returns a value not seen before, Date.now() does not go back
Fresh(msgs, id, now) ==
  \A i \in 1..Len(msgs) : msgs[i].id # id /\ msgs[i].createdAt <= now

\* what one sendUserMessage appends after its user message
ReplayMessages ==
  {Msg("assistant", 1, "toolCalls", 1, 1),
   ToolResultMsg(1, 1, 1, executeToolCall(ToolCallNames[1], "text")),
   Msg("assistant", 1, "answer", 1, 0),
   ErrorMsg(1, ErrTransport)}

\* two sessions are given the same conversation state: the history of the
\* constructor, the system prompt with its id and creation time
ReplayStart(id, now) ==
  /\ driver = "replay"
  /\ replay = NoReplay
  /\ replay' = [a |-> appendMessage(<<>>, SystemMsg, id, now),
                b |-> appendMessage(<<>>, SystemMsg, id, now)]
  /\ UNCHANGED <<messages, isProcessing, tasks, llmSent, catalog, errorListener, aEmitted,
                 aAct, snapshot, resets, backendVars, clientVars, defVars, cmBaseUrl>>

\* both sessions process the same user text and are given the same model
\* responses and tool results: each appendMessage call of the one has its
\* twin in the other, with the same argument
ReplayAppend(message, ia, ta, ib, tb) ==
  /\ driver = "replay"
  /\ replay # NoReplay
  /\ Len(replay.a) <= MaxReplay
  /\ (Len(replay.a) = 1) = (message.role = "user")
  /\ Fresh(replay.a, ia, ta) /\ Fresh(replay.b, ib, tb)
  /\ replay' = [a |-> appendMessage(replay.a, message, ia, ta),
                b |-> appendMessage(replay.b, message, ib, tb)]
  /\ UNCHANGED <<messages, isProcessing, tasks, llmSent, catalog, errorListener, aEmitted,
                 aAct, snapshot, resets, backendVars, clientVars, defVars, cmBaseUrl>>

\* --------------------------------------------------------------- behaviours
Next ==
  \/ \E s \in Services : ApiStart(s)
  \/ \E s \in Services : ApiStop(s)
  \/ \E s \in Services : ApiRestart(s)
  \/ \E c \in 1..Len(calls) : AfterSpawn(c)
  \/ \E c \in 1..Len(calls) : AfterReady(c)
  \/ \E c \in 1..Len(calls) : AfterKill(c)
  \/ \E c \in 1..Len(calls) : RestartContinue(c)
  \/ \E p \in 1..Len(procs) : GoReadyLine(p)
  \/ \E c \in 1..Len(calls) : PythonPollOk(c)
  \/ \E c \in 1..Len(calls) : StartupTimeout(c)
  \/ \E p \in 1..Len(procs) : KillTimerFires(p)
  \/ \E p \in 1..Len(procs), how \in {"exitCode", "exitSignal"} : ProcExit(p, how)
  \/ LcStartGo
  \/ LcAfterGo
  \/ LcAfterPython
  \/ LcInitialized
  \/ LcShutdown
  \/ LcStopAllNext
  \/ LcAfterStopAll
  \/ \E c \in 1..Len(calls) : StopCatch(c)
  \/ \E s \in Services : HealthTick(s)
  \/ \E s \in Services, healthy \in BOOLEAN, more \in BOOLEAN :
       ProbeDone(s, healthy, more)

Spec == Init /\ [][Next]_vars

\* the lifecycle calls start() once and stop() once on every service
LcCalls == Cardinality(Services) + Cardinality(Services)
MaxCallIds == IF MaxCalls > LcCalls THEN MaxCalls ELSE LcCalls

\* a child that was sent SIGKILL exits
ForcedExit(p) ==
  /\ p \in 1..Len(procs) /\ procs[p].forced
  /\ ProcExit(p, "exitSignal")

\* the fairness the event loop gives: a queued continuation runs, an armed
\* timer fires (the SIGKILL timer, the health interval), a health probe in
\* flight returns, and a child that was sent SIGKILL exits
Fairness ==
  /\ \A c \in 1..MaxCallIds :
       /\ WF_vars(AfterSpawn(c)) /\ WF_vars(AfterReady(c))
       /\ WF_vars(AfterKill(c)) /\ WF_vars(RestartContinue(c))
       /\ WF_vars(StopCatch(c))
  /\ WF_vars(LcAfterGo) /\ WF_vars(LcAfterPython)
  /\ WF_vars(LcInitialized)
  /\ WF_vars(LcStopAllNext) /\ WF_vars(LcAfterStopAll)
  /\ \A p \in 1..MaxProcs :
       /\ WF_vars(KillTimerFires(p))
       /\ WF_vars(ForcedExit(p))
  /\ \A s \in Services :
       /\ WF_vars(HealthTick(s))
       /\ WF_vars(\E healthy \in BOOLEAN, more \in BOOLEAN : ProbeDone(s, healthy, more))

FairSpec == Spec /\ Fairness

\* the ConversationManager with a backend address that was handed on or not
AgentInit ==
  /\ driver = "agent" /\ announce = ChunkV4 /\ envUrl = <<>>
  /\ lc = [pc |-> "off", call |-> 0]
  /\ ServicesIdle
  /\ cmBaseUrl \in {<<>>, UrlV4}
  /\ AgentIdle
  /\ ClientsIdle
  /\ catalog = 0
  /\ errorListener \in BOOLEAN

AgentNext ==
  \/ \E text \in Texts : Submit(text)
  \/ \E r \in 1..Len(tasks) : StartTask(r)
  \/ \E r \in 1..Len(tasks), hasConfig \in BOOLEAN : AfterRefresh(r, hasConfig)
  \/ \E r \in 1..Len(tasks), connOk \in BOOLEAN, fetch \in FetchOutcomes :
       AfterCatalog(r, connOk, fetch)
  \/ \E r \in 1..Len(tasks), resp \in Responses : Response(r, resp)
  \/ \E r \in 1..Len(tasks) : ToolDone(r, "text")

AgentSpec == AgentInit /\ [][AgentNext]_vars

\* every promise the orchestrator awaits settles: the queue's `then`, the
\* configuration refresh, the tool catalogue, the inference request and the
\* tool call
AgentFairness ==
  \A r \in 1..MaxRequests :
    /\ WF_vars(r <= Len(tasks) /\ StartTask(r))
    /\ WF_vars(r <= Len(tasks) /\ \E hasConfig \in BOOLEAN : AfterRefresh(r, hasConfig))
    /\ WF_vars(r <= Len(tasks)
                 /\ \E connOk \in BOOLEAN, fetch \in FetchOutcomes :
                      AfterCatalog(r, connOk, fetch))
    /\ WF_vars(r <= Len(tasks) /\ \E resp \in Responses : Response(r, resp))
    /\ WF_vars(r <= Len(tasks) /\ ToolDone(r, "text"))

AgentFairSpec == AgentSpec /\ AgentFairness

\* one user message whose tool calls return, fail remotely or throw
ToolInit ==
  /\ driver = "tools" /\ announce = ChunkV4 /\ envUrl = <<>>
  /\ lc = [pc |-> "off", call |-> 0]
  /\ ServicesIdle
  /\ cmBaseUrl = UrlV4
  /\ AgentIdle
  /\ ClientsIdle
  /\ catalog = 0
  /\ errorListener \in BOOLEAN

ToolNext ==
  \/ tasks = <<>> /\ \E text \in Texts : Submit(text)
  \/ \E r \in 1..Len(tasks) : StartTask(r)
  \/ \E r \in 1..Len(tasks), hasConfig \in BOOLEAN : AfterRefresh(r, hasConfig)
  \/ \E r \in 1..Len(tasks), connOk \in BOOLEAN, fetch \in FetchOutcomes :
       AfterCatalog(r, connOk, fetch)
  \/ \E r \in 1..Len(tasks), resp \in Responses : Response(r, resp)
  \/ \E r \in 1..Len(tasks), out \in ToolOutcomes : ToolDone(r, out)

ToolSpec == ToolInit /\ [][ToolNext]_vars

\* the ConversationManager whose history is reset and read by the ipc
\* handlers before, while and after one user message is processed
ResetInit ==
  /\ driver = "reset" /\ announce = ChunkV4 /\ envUrl = <<>>
  /\ lc = [pc |-> "off", call |-> 0]
  /\ ServicesIdle
  /\ cmBaseUrl = UrlV4
  /\ AgentIdle
  /\ ClientsIdle
  /\ catalog = 0
  /\ errorListener = TRUE

ResetNext ==
  \/ tasks = <<>> /\ \E text \in Texts : Submit(text)
  \/ \E r \in 1..Len(tasks) : StartTask(r)
  \/ \E r \in 1..Len(tasks), hasConfig \in BOOLEAN : AfterRefresh(r, hasConfig)
  \/ \E r \in 1..Len(tasks), connOk \in BOOLEAN, fetch \in FetchOutcomes :
       AfterCatalog(r, connOk, fetch)
  \/ \E r \in 1..Len(tasks), resp \in Responses : Response(r, resp)
  \/ \E r \in 1..Len(tasks) : ToolDone(r, "text")
  \/ GetState
  \/ Reset

ResetSpec == ResetInit /\ [][ResetNext]_vars

\* two sessions that start from one conversation state and are fed the same
\* inputs
ReplayInit ==
  /\ driver = "replay" /\ announce = ChunkV4 /\ envUrl = <<>>
  /\ lc = [pc |-> "off", call |-> 0]
  /\ ServicesIdle
  /\ cmBaseUrl = UrlV4
  /\ AgentIdle
  /\ ClientsIdle
  /\ catalog = 0
  /\ errorListener = TRUE

ReplayNext ==
  \/ \E id \in Uuids, now \in Clock : ReplayStart(id, now)
  \/ \E message \in {UserMsg(1, text) : text \in Texts} \cup ReplayMessages,
        ia \in Uuids, ta \in Clock, ib \in Uuids, tb \in Clock :
       ReplayAppend(message, ia, ta, ib, tb)

ReplaySpec == ReplayInit /\ [][ReplayNext]_vars

\* the application starts its services in order; once initialize() has
\* registered the ipc handlers a user message is sent, and further ones as
\* long as the ConversationManager has no backend address
StartupInit ==
  /\ driver = "lifecycle" /\ announce \in Chunks /\ envUrl \in {<<>>, UrlPreset}
  /\ lc = [pc |-> "setup", call |-> 0]
  /\ ServicesIdle
  /\ cmBaseUrl = <<>>
  /\ AgentIdle
  /\ ClientsIdle
  /\ catalog = 0
  /\ errorListener \in BOOLEAN

StartupNext ==
  \/ LcStartGo
  \/ LcAfterGo
  \/ LcAfterPython
  \/ LcInitialized
  \/ \E c \in 1..Len(calls) : AfterSpawn(c)
  \/ \E c \in 1..Len(calls) : AfterReady(c)
  \/ \E p \in 1..Len(procs) : GoReadyLine(p)
  \/ \E c \in 1..Len(calls) : PythonPollOk(c)
  \/ \E c \in 1..Len(calls) : StartupTimeout(c)
  \/ \E p \in 1..Len(procs), how \in {"exitCode", "exitSignal"} : ProcExit(p, how)
  \/ /\ lc.pc = "ready"
     /\ tasks = <<>> \/ cmBaseUrl = <<>>
     /\ \E text \in Texts : Submit(text)
  \/ \E r \in 1..Len(tasks) : StartTask(r)
  \/ \E r \in 1..Len(tasks), hasConfig \in BOOLEAN : AfterRefresh(r, hasConfig)
  \/ \E r \in 1..Len(tasks), connOk \in BOOLEAN, fetch \in FetchOutcomes :
       AfterCatalog(r, connOk, fetch)
  \/ \E r \in 1..Len(tasks), resp \in Responses : Response(r, resp)
  \/ \E r \in 1..Len(tasks) : ToolDone(r, "text")

StartupSpec == StartupInit /\ [][StartupNext]_vars

\* the McpClientManager called one call after the other, the way ensureTools
\* and executeToolCall call it, each with a base URL
BridgeInit ==
  /\ driver = "bridge" /\ announce = ChunkV4 /\ envUrl = <<>>
  /\ lc = [pc |-> "off", call |-> 0]
  /\ ServicesIdle
  /\ cmBaseUrl = <<>>
  /\ AgentIdle
  /\ ClientsIdle
  /\ catalog = 0
  /\ errorListener = TRUE

BridgeNext ==
  \/ \E url \in BridgeUrls, connOk \in BOOLEAN, fetch \in FetchOutcomes :
       BListTools(url, connOk, fetch)
  \/ \E url \in BridgeUrls, connOk \in BOOLEAN, out \in CallOutcomes :
       BCallTool(url, connOk, out)
  \/ BDisconnect

BridgeSpec == BridgeInit /\ [][BridgeNext]_vars

\* =========================================================== LlmClient
\* one createChatCompletion request. chat.rcvd is the sequence of events the
\* request has seen; ws is "open" until close() is called on it ("closing")
\* or its 'close' event is emitted ("closed")
MaxEvents == 3

Event(type, content, finish, n) ==
  [type |-> type, content |-> content, finish |-> finish, n |-> n]

\* the messages the inference service may send: content chunks (one of them
\* with empty content), a tool call, done with or without content and finish
\* reason, an error, and data that is not JSON
WsMessages ==
  {Event("chunk", c, <<>>, 0) : c \in {<<"H", "e", "l">>, <<"l", "o">>, <<>>}}
    \cup {Event("tool_call", <<>>, <<>>, 1)}
    \cup {Event("done", c, f, 0) : c \in {<<>>, <<"H", "e", "l", "l", "o">>},
                                   f \in {<<>>, <<"stop">>}}
    \cup {Event("error", <<>>, <<>>, 0), Event("malformed", <<>>, <<>>, 0)}

\* the rejection of the watchdog; the others are named by their cause
RejTimeout == "request timed out"

Resolved(c) ==
  [kind |-> "resolved",
   content |-> IF c.accumulatedContent = <<>> THEN <<>> ELSE <<c.accumulatedContent>>,
   toolCalls |-> c.toolCalls, finishReason |-> c.finishReason, why |-> "none"]
Rejected(why) == [Pending EXCEPT !.kind = "rejected", !.why = why]

\* variant: a promise that takes its last settlement
SettleLast(c, o) == o

\* resolve(o) or reject(o): only the first call settles the promise
SettleFirst(c, o) == IF c.outcome.kind = "pending" THEN o ELSE c.outcome

\* ws.close()
CloseWs(c) == IF c.ws = "open" THEN "closing" ELSE c.ws

\* does the stream callback of sendUserMessage throw on this message: on a
\* content chunk it appends the placeholder and reads the id of what
\* appendMessage returned, which is undefined
CallbackThrows(c, ev) == c.onStream /\ ev.type = "chunk" /\ ev.content # <<>>

\* the catch block of the 'message' handler
Caught(c) ==
  IF c.hasError THEN c
  ELSE [c EXCEPT !.hasError = TRUE, !.timeout = FALSE, !.ws = CloseWs(c),
                 !.outcome = SettleFirst(c, Rejected("message handler threw"))]

\* the 'message' handler
OnMessage(c, ev) ==
  IF ev.type = "malformed" THEN Caught(c)
  ELSE IF ev.type = "chunk" /\ ev.content # <<>>
  THEN LET c1 == [c EXCEPT !.accumulatedContent = @ \o ev.content] IN
         IF CallbackThrows(c1, ev) THEN Caught(c1) ELSE c1
  ELSE IF ev.type = "tool_call"
  THEN [c EXCEPT !.toolCalls = ev.n]
  ELSE IF ev.type = "done"
  THEN LET c1 == [c EXCEPT !.finishReason = ev.finish,
                            !.accumulatedContent =
                               IF ev.content # <<>> THEN ev.content ELSE @,
                            !.timeout = FALSE, !.hasError = FALSE, !.ws = CloseWs(c)] IN
         [c1 EXCEPT !.outcome = SettleFirst(c, Resolved(c1))]
  ELSE IF ev.type = "error"
  THEN [c EXCEPT !.timeout = FALSE, !.hasError = TRUE, !.ws = CloseWs(c),
                 !.outcome = SettleFirst(c, Rejected("error event"))]
  ELSE c

\* variant: a close that rejects nothing
ClosedEarlyIgnored(c) == FALSE

\* the 'close' handler: closed with no error and no finish reason
ClosedEarly(c) == ~c.hasError /\ c.finishReason = <<>>

ChatStep(c) ==
  /\ driver = "chat"
  /\ chat' = c
  /\ UNCHANGED <<isProcessing, tasks, llmSent, catalog, errorListener, aEmitted, aAct,
                 mcp, bLast, bCount, bFetches, defVars, sessionVars, backendVars, cmBaseUrl>>

\* createChatCompletion is called, with or without the stream callback
ChatOpen(onStream) ==
  /\ chat.st = "none"
  /\ ChatStep([ChatIdle EXCEPT !.st = "open", !.onStream = onStream, !.timeout = TRUE,
                               !.ws = "open"])
  /\ UNCHANGED messages

\* a message arrives; the stream callback appends its placeholder to the
\* history before it throws
ChatMessage(ev) ==
  /\ chat.ws \in {"open", "closing"}
  /\ Len(chat.rcvd) < MaxEvents
  /\ ChatStep([OnMessage(chat, ev) EXCEPT !.rcvd = Append(@, ev)])
  /\ messages' = IF CallbackThrows(chat, ev)
                 THEN Append(messages,
                             [Msg("assistant", 0, "chunk", 0, 0) EXCEPT !.text = ev.content])
                 ELSE messages

\* the socket's 'error' event
ChatSocketError ==
  /\ chat.ws \in {"open", "closing"}
  /\ Len(chat.rcvd) < MaxEvents
  /\ ChatStep([(IF chat.hasError THEN chat
                ELSE [chat EXCEPT !.hasError = TRUE, !.timeout = FALSE,
                                  !.outcome = SettleFirst(chat, Rejected("socket error"))])
                 EXCEPT !.rcvd = Append(@, Event("socketError", <<>>, <<>>, 0))])
  /\ UNCHANGED messages

\* the socket's 'close' event
ChatClose ==
  /\ chat.ws \in {"open", "closing"}
  /\ ChatStep([(IF ClosedEarly(chat)
                THEN [chat EXCEPT
                        !.hasError = TRUE,
                        !.outcome = SettleFirst(chat, Rejected("connection closed unexpectedly"))]
                ELSE chat)
                 EXCEPT !.ws = "closed", !.timeout = FALSE,
                        !.rcvd = Append(@, Event("close", <<>>, <<>>, 0))])
  /\ UNCHANGED messages

\* the watchdog set for 120 seconds fires
ChatTimeout ==
  /\ chat.timeout
  /\ ChatStep([(IF chat.hasError THEN chat
                ELSE [chat EXCEPT !.hasError = TRUE, !.ws = CloseWs(chat),
                                  !.outcome = SettleFirst(chat, Rejected(RejTimeout))])
                 EXCEPT !.timeout = FALSE,
                        !.rcvd = Append(@, Event("timeout", <<>>, <<>>, 0))])
  /\ UNCHANGED messages

ChatInit ==
  /\ driver = "chat" /\ announce = ChunkV4 /\ envUrl = <<>>
  /\ lc = [pc |-> "off", call |-> 0]
  /\ ServicesIdle
  /\ cmBaseUrl = UrlV4
  /\ AgentIdle
  /\ ClientsIdle
  /\ catalog = 0
  /\ errorListener = TRUE

ChatNext ==
  \/ \E onStream \in BOOLEAN : ChatOpen(onStream)
  \/ \E ev \in WsMessages : ChatMessage(ev)
  \/ ChatSocketError
  \/ ChatClose
  \/ ChatTimeout

ChatSpec == ChatInit /\ [][ChatNext]_vars

\* a timer that is set and not cleared fires
ChatFairSpec == ChatSpec /\ WF_vars(ChatTimeout)

\* ensureTools called with the catalogs the automation service may list
MaxTools == 2

\* tools whose description is absent, null, empty or a text
DescriptionsIn == {OptAbsent, OptNull, Str(<<>>), Str(<<"Search feeds">>)}
Catalogs ==
  LET ToolsIn == {Tool(n, d, s) : n \in {ToolCallNames[i] : i \in 1..Len(ToolCallNames)},
                                  d \in DescriptionsIn,
                                  s \in {NoSchema, BareSchema, FullSchema}}
  IN UNION {[1..k -> ToolsIn] : k \in 0..MaxTools}

DEnsureTools(url, connOk, fetch) ==
  /\ driver = "definitions"
  /\ cmBaseUrl # <<>>
  /\ \E o \in {ensureTools(mcp, url, connOk, fetch)} :
       /\ mcp' = o.b
       /\ tools' = o.tools
       /\ toolDefinitions' = o.toolDefinitions
       /\ catalog' = Len(o.tools)
  /\ UNCHANGED <<bLast, bCount, bFetches, chat, messages, isProcessing, tasks, llmSent,
                 errorListener, aEmitted, aAct, backendVars, sessionVars, cmBaseUrl>>

DefInit ==
  /\ driver = "definitions" /\ announce = ChunkV4 /\ envUrl = <<>>
  /\ lc = [pc |-> "off", call |-> 0]
  /\ ServicesIdle
  /\ cmBaseUrl = UrlV4
  /\ AgentIdle
  /\ ClientsIdle
  /\ catalog = 0
  /\ errorListener = TRUE

DefNext ==
  \E connOk \in BOOLEAN,
     fetch \in [ok : {FALSE}, tools : {<<>>}] \cup [ok : {TRUE}, tools : Catalogs] :
    DEnsureTools(cmBaseUrl, connOk, fetch)

DefSpec == DefInit /\ [][DefNext]_vars

\* =================================================================== claims
CallIds == 1..Len(calls)
ProcIds == 1..Len(procs)

\* the statuses the acting service went through in a step: its status
\* before, the status of every event emitted, its status after
Trail(s) ==
  IF lastAct'.svc = s
  THEN <<status[s]>> \o [i \in 1..Len(emitted') |-> emitted'[i][2]] \o <<status'[s]>>
  ELSE <<status[s], status'[s]>>

Edges ==
  { <<Stopped, Starting>>, <<Starting, Running>>, <<Starting, Error>>,
    <<Running, Error>>, <<Running, Stopping>>, <<Error, Stopping>>,
    <<Stopping, Stopped>>, <<Stopping, Error>> }

\* C1: every change of a service's status follows an edge of the status
\* state machine (Stopped->Starting, Starting->Running, Starting->Error,
\* Running->Error, Running->Stopping, Error->Stopping, Stopping->Stopped,
\* Stopping->Error); no other change occurs.
C1_OnlyLegalEdges ==
  [][\A s \in Services :
       LET tr == Trail(s)
       IN \A i \in 1..Len(tr) - 1 :
            tr[i] # tr[i + 1] => <<tr[i], tr[i + 1]>> \in Edges]_vars

\* a step in which start() is invoked on service s
StartInvoked(s) == lastAct'.op = "start" /\ lastAct'.svc = s

\* C2: start() invoked while the status is Starting fails with an error,
\* leaves the status Starting and spawns nothing: no process is added and
\* the handle, the events and the pending start are untouched.
C2_StartWhileStartingRejected ==
  [][\A s \in Services :
       StartInvoked(s) /\ status[s] = Starting =>
         /\ returned' = <<lastAct'.c, "err", ErrAlreadyStarting>>
         /\ status'[s] = Starting
         /\ procs' = procs /\ process' = process
         /\ emitted' = <<>>
         /\ \A c \in CallIds : calls[c].pc # "restart_mid" => calls'[c] = calls[c]]_vars

C2_Witness ==
  /\ lastAct.op = "start"
  /\ returned = <<lastAct.c, "err", ErrAlreadyStarting>>
  /\ status[lastAct.svc] = Starting
  /\ \E c \in CallIds : calls[c].pc = "await_ready" /\ calls[c].svc = lastAct.svc

\* a step in which stop() is invoked on service s (directly or by restart())
StopInvoked(s) == lastAct'.op \in {"stop", "restart"} /\ lastAct'.svc = s

\* C3: a stop() invoked while the status is Stopped or Stopping changes
\* nothing (status, events, signals, timers), and a stop() only ever signals
\* a child that was never signalled before, so concurrent stop() calls
\* signal the process of a service once.
C3_StopOnlyFirstCallerWorks ==
  [][\A s \in Services :
       StopInvoked(s) =>
         /\ status[s] \in {Stopped, Stopping} =>
              /\ status' = status /\ emitted' = <<>>
              /\ procs' = procs /\ killTimers' = killTimers
              /\ process' = process /\ timers' = timers
              /\ error' = error
         /\ \A p \in ProcIds :
              procs'[p] # procs[p] =>
                /\ ~procs[p].killed /\ procs'[p].killed
                /\ p = process[s] /\ status[s] \notin {Stopped, Stopping}]_vars

\* a second stop() arrives while the first still waits for the child to exit
C3_Witness ==
  /\ lastAct.op = "stop" /\ returned = <<lastAct.c, "ok", NoError>>
  /\ status[lastAct.svc] = Stopping
  /\ \E c \in CallIds :
       /\ calls[c].pc = "await_kill" /\ calls[c].svc = lastAct.svc
       /\ procs[calls[c].child].st = "live" /\ procs[calls[c].child].killed

\* the start() call c is about to handle a failure of one of its steps
StartStepFailed(c) ==
  \/ calls[c].pc = "await_spawn" /\ calls[c].child = 0
  \/ calls[c].pc = "ready_settled" /\ calls[c].err # NoError

FailureOf(c) == IF calls[c].pc = "await_spawn" THEN ErrSpawn ELSE calls[c].err

\* C4: when the spawn step or the wait-for-ready step of a start() call
\* fails, the call's continuation sets the status Error, records that error,
\* emits an error event and rejects with the same error; and the status is
\* only ever set to Running by a start() call that resolves.
C4_StartFailureRecorded ==
  [][/\ \A c \in CallIds :
          StartStepFailed(c) /\ calls'[c] # calls[c] =>
            /\ status'[calls[c].svc] = Error
            /\ error'[calls[c].svc] = FailureOf(c)
            /\ emitted' = << <<"error", Error>>, <<"status", Error>> >>
            /\ returned' = <<c, "err", FailureOf(c)>>
     /\ \A s \in Services :
          status'[s] = Running /\ status[s] # Running =>
            /\ returned' = <<lastAct'.c, "ok", NoError>>
            /\ ~StartStepFailed(lastAct'.c)]_vars

C4_Witness ==
  /\ lastAct.op = "afterReady"
  /\ returned = <<lastAct.c, "err", ErrTimeout>>
  /\ status[lastAct.svc] = Error /\ error[lastAct.svc] = ErrTimeout

\* C5: whenever a service of either variant is Running, a health-check timer
\* is scheduled for it.
C5_RunningHasHealthTimer ==
  \A s \in Services :
    status[s] = Running => healthCheckTimer[s] # 0 /\ healthCheckTimer[s] \in timers[s]

\* a step in which a health probe of service s reports unhealthy
ProbeUnhealthy(s) == lastAct'.op = "probeFail" /\ lastAct'.svc = s

\* C6: an unhealthy probe of a Running service sets the status Error,
\* records the failure and emits an error event; no process is signalled,
\* the handle is kept and no call is started or changed.
C6_HealthFailureDoesNotKill ==
  [][\A s \in Services :
       ProbeUnhealthy(s) /\ status[s] = Running =>
         /\ status'[s] = Error /\ error'[s] = ErrHealth
         /\ emitted' = << <<"error", Error>>, <<"status", Error>> >>
         /\ procs' = procs /\ process' = process /\ killTimers' = killTimers
         /\ calls' = calls /\ mq' = mq /\ timers' = timers]_vars

C6_Witness ==
  /\ lastAct.op = "probeFail"
  /\ status[lastAct.svc] = Error /\ error[lastAct.svc] = ErrHealth
  /\ process[lastAct.svc] # 0 /\ procs[process[lastAct.svc]].st = "live"
  /\ ~procs[process[lastAct.svc]].killed

\* C7: a health probe that completes while the service is not Running
\* changes neither the status nor the recorded error.
C7_StaleProbeIgnored ==
  [][\A s \in Services :
       lastAct'.op \in {"probeOk", "probeFail"} /\ lastAct'.svc = s
         /\ status[s] # Running =>
           status'[s] = status[s] /\ error'[s] = error[s]]_vars

\* C8: once stop() has completed (the status is Stopped), no health-check
\* timer of the service is still scheduled.
C8_StoppedHasNoTimer ==
  \A s \in Services : status[s] = Stopped => timers[s] = {}

\* the stop() call c found a process that is alive: it waits for its exit, or
\* (the child had been signalled before) its wait has already resolved
StopOnLive(c) ==
  /\ c \in CallIds /\ calls[c].pc \in {"await_kill", "kill_settled"}
  /\ procs[calls[c].child].st = "live"

StopCompleted(c) ==
  /\ lastAct.op = "afterKill" /\ lastAct.c = c
  /\ status[lastAct.svc] = Stopped

\* C9: a stop() that finds a live process has sent it SIGTERM and has the
\* SIGKILL of the 10-second timer armed for it (or already delivered), and
\* it eventually completes with status Stopped, given that a child sent
\* SIGKILL exits.
C9_StopTerminates ==
  /\ [](\A c \in CallIds :
          StopOnLive(c) =>
            /\ procs[calls[c].child].killed
            /\ calls[c].child \in killTimers \/ procs[calls[c].child].forced)
  /\ \A c \in 1..MaxCallIds : StopOnLive(c) ~> StopCompleted(c)

PythonProcs == {p \in ProcIds : procs[p].svc = PythonName}

\* C10: in the ordered startup, start() of the inference service is invoked
\* only when the automation service is Running and the base URL derived from
\* its readiness line is in MCP_SERVER_URL; every inference process is
\* spawned with that URL (APP_SERVER_ADDR=127.0.0.1:5555 gives
\* http://127.0.0.1:5555).
C10_OrderedStartup ==
  /\ [](driver = "lifecycle" =>
          \A p \in PythonProcs :
            /\ procs[p].env = buildBaseUrl(AddressOf(ReadyLineOf(announce)))
            /\ procs[p].env # <<>>
            /\ announce = ChunkV4 => procs[p].env = UrlV4)
  /\ [][driver = "lifecycle" /\ StartInvoked(PythonName) =>
          /\ status[GoName] = Running
          /\ envUrl' = buildBaseUrl(AddressOf(ReadyLineOf(announce)))
          /\ cmBaseUrl' = envUrl']_vars

C10_Witness ==
  /\ driver = "lifecycle" /\ announce = ChunkV4
  /\ \E p \in PythonProcs : procs[p].env = UrlV4 /\ procs[p].st = "live"
  /\ status[PythonName] = Running

\* stopAll() has made its calls and awaits (or has got) their outcome
StopAllIssued == lc.pc \in {"await_stops", "exit_0", "exit_1"}

\* every stop() call of stopAll() has settled
StopAllDone ==
  /\ Cardinality(StopAllCalls(calls)) = Cardinality(Services)
  /\ \A d \in StopAllCalls(calls) : calls[d].pc = "done"

C12_StartupFailureAborts ==
  [][lc.pc = "failed" /\ lc'.pc # "failed" => lc'.pc = "aborted"]_vars

\* the process the service holds has exited
HeldProcessExited(s) == process[s] # 0 /\ procs[process[s]].st # "live"

\* C13: a service that is Running while the process it holds has exited
\* eventually leaves Running, for either service; the exit itself starts
\* no new call on the service.
C13_ExitSurfaced ==
  /\ \A s \in Services :
       (status[s] = Running /\ HeldProcessExited(s)) ~> (status[s] # Running)
  /\ [][lastAct'.op = "exit" => Len(calls') = Len(calls)]_vars

\* C14: for every user message the agent loop sends at most MAX_ITERATIONS
\* inference requests, and the sendUserMessage call settles once everything
\* it awaits has settled: time and again every call made so far has settled
C14_LoopBounded ==
  /\ [](Len(llmSent) <= MAX_ITERATIONS)
  /\ []<>(\A r \in 1..Len(tasks) : tasks[r].pc = "done")

\* a request that used all six iterations on tool calls and then returned
C14_Witness ==
  \E r \in 1..Len(tasks) :
    /\ Len(llmSent) = MAX_ITERATIONS
    /\ aAct = AAct("toolDone", r)
    /\ tasks[r].pc = "done" /\ tasks[r].res = "state"
    /\ messages[Len(messages)] = Msg("assistant", r, "answer", MAX_ITERATIONS, 0)

\* C15: a sendUserMessage task first appends its user message and sets
\* isProcessing, and whenever a task ends, by returning or by throwing,
\* isProcessing is false; it is never true once the call has settled
C15_StatusReset ==
  /\ [][\A r \in 1..Len(tasks) :
         /\ (tasks[r].pc = "queued" /\ tasks'[r].pc # "queued")
               => /\ Len(messages') > Len(messages)
                  /\ messages'[Len(messages) + 1] = UserMsg(r, tasks[r].text)
                  /\ Len(aEmitted') >= 2
                  /\ aEmitted'[1] = <<"message", "user">>
                  /\ aEmitted'[2] = <<"status", "true">>
                  /\ (tasks'[r].pc # "done" => isProcessing')
         /\ (tasks[r].pc # "done" /\ tasks'[r].pc = "done")
               => /\ ~isProcessing'
                  /\ aEmitted'[Len(aEmitted')] = <<"status", "false">>]_vars
  /\ []((\A r \in 1..Len(tasks) : tasks[r].pc \in {"queued", "done"}) => ~isProcessing)

\* a request that threw in the agent loop has settled with the status reset
C15_Witness ==
  \E r \in 1..Len(tasks) :
    /\ tasks[r].pc = "done" /\ ~isProcessing
    /\ aAct = AAct("reject", r)
    /\ messages[Len(messages)].kind = "error"
    /\ \E i \in 1..Len(messages) : messages[i] = UserMsg(r, <<"h", "i">>)

\* the requests that have started and not yet settled
InFlight == {r \in 1..Len(tasks) : tasks[r].pc \notin {"queued", "done"}}

\* C16: sendUserMessage requests run one at a time in submission order: never
\* are two in flight, and a request appends to the history only after every
\* request before it has settled and isProcessing is false again
C16_Serialized ==
  /\ [](Cardinality(InFlight) <= 1)
  /\ [](\A i, j \in 1..Len(messages) : i < j => messages[i].req <= messages[j].req)
  /\ [][\A r \in 1..Len(tasks) :
         (tasks[r].pc = "queued" /\ tasks'[r].pc # "queued")
           => /\ ~isProcessing
              /\ \A q \in 1..(r - 1) : tasks[q].pc = "done"]_vars

\* the second request is in flight after the first has settled
C16_Witness ==
  /\ Len(tasks) = 2
  /\ tasks[1].pc = "done" /\ tasks[2].pc = "infer"
  /\ aAct = AAct("catalog", 2)
  /\ \E i \in 1..Len(messages) : messages[i].req = 1 /\ messages[i].kind = "answer"

\* C17: a request whose task rejects does not block the queue: the requests
\* submitted after it still run, in order, and its rejection reaches only its
\* own caller, a later request getting its own result
C17_FailureDoesNotBlock ==
  /\ [](\A r \in 2..Len(tasks) :
          (tasks[r].pc = "queued" /\ tasks[r - 1].res = "rejected")
            => ENABLED StartTask(r))
  /\ [][\A r \in 1..Len(tasks) :
         /\ tasks[r].pc = "done" => tasks'[r] = tasks[r]
         /\ (tasks[r].pc # "done" /\ tasks'[r].pc = "done")
               => /\ \A q \in 1..(r - 1) : tasks[q].pc = "done"
                  /\ tasks'[r].res = "rejected"
                        <=> (~errorListener /\ messages'[Len(messages')].kind = "error"
                               /\ messages'[Len(messages')].req = r)]_vars

\* after a request that rejected, the next one ran and returned the state
C17_Witness ==
  /\ Len(tasks) = 2
  /\ tasks[1].res = "rejected"
  /\ tasks[2].pc = "done" /\ tasks[2].res = "state"
  /\ messages[Len(messages)] = Msg("assistant", 2, "answer", 1, 0)

\* C18: when the latest user message has a tool keyword and the first
\* response has no tool calls and finish reason stop, a second request is
\* sent that forces one tool by name and carries the corrective instruction;
\* no other request of the user message carries a tool_choice
C18_ForcedOnSecondRequest ==
  /\ [](\A i \in 1..Len(llmSent) :
          llmSent[i].toolChoice # "none" => (i = 2 /\ llmSent[i].corrective))
  /\ [][(aAct'.op = "stop" /\ Len(llmSent) = 1 /\ needsToolCall(messages))
          => /\ Len(llmSent') = 2
             /\ llmSent'[2].corrective
             /\ llmSent'[2].toolChoice = suggestedTool(LastUserMessage(messages))
             /\ llmSent'[2].toolChoice # "none"]_vars

\* the second response of request r arrives as text while the heuristic
\* expects a tool and the request has called none
SecondTextResponse(r, fins) ==
  /\ tasks[r].pc = "infer" /\ Len(llmSent) = 2
  /\ aAct' = AAct(aAct'.op, r) /\ aAct'.op \in fins
  /\ needsToolCall(messages)
  /\ \A i \in 1..Len(messages) : ~(messages[i].req = r /\ messages[i].kind = "toolCalls")

\* the request ends with the error about tool calling as its assistant message
EndsWithNoToolCallError(r) ==
  /\ tasks'[r].pc = "done"
  /\ messages' = Append(messages, ErrorMsg(r, ErrNoToolCall))

NoToolCallYet(r, msgs) ==
  \A i \in 1..Len(msgs) : ~(msgs[i].req = r /\ msgs[i].kind = "toolCalls")

\* C20: a request sent while the heuristic expects a tool and no tool has
\* been called in this user message is sent without streaming, so no
\* streamed assistant text is in the history or emitted before a tool call
C20_NoStreamBeforeTool ==
  /\ [][(Len(llmSent') > Len(llmSent) /\ needsToolCall(messages')
           /\ NoToolCallYet(aAct'.req, messages'))
          => ~llmSent'[Len(llmSent')].stream]_vars
  /\ [](\A i \in 1..Len(messages) :
          (messages[i].kind = "chunk" /\ needsToolCall(Sub(messages, 1, i)))
            => ~NoToolCallYet(messages[i].req, Sub(messages, 1, i)))
  /\ []((\E i \in 1..Len(aEmitted) : aEmitted[i] = <<"message", "chunk">>)
          => (needsToolCall(messages) => ~NoToolCallYet(aAct.req, messages)))

\* both requests of a keyword message went out unstreamed, and the text of
\* the second response was appended whole
C20_Witness ==
  \E r \in 1..Len(tasks) :
    /\ aAct = AAct("length", r) /\ Len(llmSent) = 2
    /\ ~llmSent[1].stream /\ ~llmSent[2].stream
    /\ needsToolCall(messages) /\ NoToolCallYet(r, messages)
    /\ messages[Len(messages)] = Msg("assistant", r, "answer", 2, 0)

\* the tool-call messages of the history msgs, by position
ToolTurns(msgs) == {i \in 1..Len(msgs) : msgs[i].kind = "toolCalls"}

\* C21: a model turn with tool calls t1..tn appends one assistant message
\* recording them, then one tool-result message per call, in the returned
\* order and tagged with the call; the next inference request is sent only
\* when all n results are in the history
C21_ToolCallsInOrder ==
  /\ [][\A r \in 1..Len(tasks) :
         (tasks[r].pc = "infer" /\ tasks'[r].pc = "tool")
           => /\ messages' = Append(messages, Msg("assistant", r, "toolCalls",
                                                  tasks[r].iterations, tasks'[r].turn))
              /\ tasks'[r].turn \in ToolCallCounts
              /\ llmSent' = llmSent]_vars
  /\ [](\A i \in ToolTurns(messages) : \A j \in 1..messages[i].k :
          i + j <= Len(messages)
            => /\ messages[i + j].role = "tool" /\ messages[i + j].kind = "toolResult"
               /\ messages[i + j].req = messages[i].req /\ messages[i + j].it = messages[i].it
               /\ messages[i + j].k = j /\ messages[i + j].toolName = ToolCallNames[j])
  /\ [][Len(llmSent') > Len(llmSent)
          => \A i \in ToolTurns(messages') : i + messages'[i].k <= Len(messages')]_vars

\* the second request went out after both results of the first turn
C21_Witness ==
  \E r \in 1..Len(tasks) :
    /\ aAct = AAct("toolDone", r) /\ Len(llmSent) = 2 /\ tasks[r].pc = "infer"
    /\ Len(messages) = 5
    /\ messages[3] = Msg("assistant", r, "toolCalls", 1, 2)
    /\ messages[4] = ToolResultMsg(r, 1, 1, executeToolCall("search_feeds", "text"))
    /\ messages[5] = ToolResultMsg(r, 1, 2, executeToolCall("publish_content", "text"))

\* what the step that ends request r threw, from the await that returned and
\* the state it returned to ("none" when it threw nothing listed here)
Thrown(r) ==
  IF aAct'.op = "start" /\ cmBaseUrl = <<>> THEN ErrNoBackend
  ELSE IF aAct'.op = "refresh" THEN ErrNoApiKey
  ELSE IF aAct'.op = "catalog" THEN ErrListTools
  ELSE IF aAct'.op = "reject" THEN ErrTransport
  ELSE IF aAct'.op = "stop" /\ tasks[r].iterations >= 2 /\ needsToolCall(messages)
            /\ \A i \in 1..Len(messages) :
                 ~(messages[i].req = r /\ messages[i].kind = "toolCalls")
       THEN ErrNoToolCall
  ELSE "none"

\* C22: when a step of processing a user message throws (no backend address,
\* no model configuration, tool catalogue fetch failure, inference transport
\* error or timeout, no-tool-call error), an assistant message flagged as an
\* error and describing the failure is appended and an error event emitted;
\* only the current request ends
C22_FailureReported ==
  [][\A r \in 1..Len(tasks) :
       (tasks[r].pc # "done" /\ tasks'[r].pc = "done" /\ aAct'.req = r
          /\ Thrown(r) # "none")
         => /\ messages' = Append(IF aAct'.op = "start"
                                      THEN Append(messages, UserMsg(r, tasks[r].text))
                                      ELSE messages,
                                    ErrorMsg(r, Thrown(r)))
            /\ messages'[Len(messages')].kind = "error"
            /\ \E i \in 1..Len(aEmitted') : aEmitted'[i] = <<"error", Thrown(r)>>
            /\ ~isProcessing'
            /\ \A q \in 1..Len(tasks) : q # r => tasks'[q] = tasks[q]]_vars

\* a request failed on the tool catalogue and the one queued behind it ran
C22_Witness ==
  /\ Len(tasks) = 2
  /\ tasks[1].pc = "done" /\ tasks[2].pc = "done"
  /\ \E i \in 1..Len(messages) : messages[i] = ErrorMsg(1, ErrListTools)
  /\ messages[Len(messages)] = Msg("assistant", 2, "answer", 1, 0)

\* the step is the return of a tool call of request r whose callTool threw
ToolThrew(r) ==
  /\ tasks[r].pc = "tool" /\ aAct' = AAct("toolDone", r)
  /\ Len(messages') > Len(messages)
  /\ messages'[Len(messages) + 1].text = FailedContent(ToolCallNames[NextCall(tasks[r])])

\* C23: a tool invocation that throws does not end the loop and does not
\* reach the caller of sendUserMessage: a tool-result message with isError
\* true, naming the tool and tagged with the call, is appended, and the loop
\* goes on with the next call of the turn or the next inference request
C23_ToolFailureContained ==
  /\ [][\A r \in 1..Len(tasks) :
         (tasks[r].pc = "tool" /\ aAct' = AAct("toolDone", r))
           => LET t == tasks[r]
                  m == messages'[Len(messages) + 1] IN
                /\ Len(messages') > Len(messages)
                /\ m.role = "tool" /\ m.kind = "toolResult"
                /\ m.it = t.iterations /\ m.k = NextCall(t)
                /\ m.toolName = ToolCallNames[NextCall(t)]
                /\ \A i \in 1..Len(messages') : messages'[i].kind # "error"
                     \/ i <= Len(messages)
                /\ IF t.todo > 1
                   THEN tasks'[r].pc = "tool" /\ NextCall(tasks'[r]) = NextCall(t) + 1
                   ELSE t.iterations < MAX_ITERATIONS
                          => /\ Len(llmSent') = Len(llmSent) + 1
                             /\ tasks'[r].pc = "infer"]_vars
  /\ [][\A r \in 1..Len(tasks) :
         ToolThrew(r)
           => /\ messages'[Len(messages) + 1].isError
              /\ includes(messages'[Len(messages) + 1].text,
                          <<ToolCallNames[NextCall(tasks[r])]>>)
              /\ tasks'[r].res # "rejected"]_vars

\* both calls of a turn threw and the request still ended with an answer
C23_Witness ==
  \E r \in 1..Len(tasks) :
    /\ tasks[r].pc = "done" /\ tasks[r].res = "state"
    /\ Len(messages) = 6
    /\ messages[4] = ToolResultMsg(r, 1, 1, executeToolCall("search_feeds", "throws"))
    /\ messages[5] = ToolResultMsg(r, 1, 2, executeToolCall("publish_content", "throws"))
    /\ messages[4].isError /\ messages[5].isError
    /\ messages[6] = Msg("assistant", r, "answer", 2, 0)

\* C24: callTool does not throw on an underlying failure (no connection, a
\* transport error, the remote call rejecting): it returns a normalised
\* result, with isError true and a failure message as content
C24_CallToolNeverThrows ==
  bLast.op = "callTool"
    => /\ bLast.res.kind = "result"
       /\ (bLast.res.isError => bLast.res.content # <<>>)

\* the step is a listTools call for the endpoint connected to, with a list cached
CachedListTools ==
  /\ bCount' = bCount + 1 /\ bLast'.op = "listTools"
  /\ mcp.client /\ mcp.endpoint = <<Endpoint(bLast'.url)>>
  /\ mcp.toolsCache # <<>>

\* C25: the tool list is fetched at most once per connection: with the
\* endpoint unchanged, a listTools() after a successful one returns the
\* cached list without a remote fetch, and the cache is only ever dropped
\* whole, on a disconnect or a reconnect to another endpoint
C25_ToolListCached ==
  /\ [](bFetches <= 1)
  /\ [][CachedListTools
          => /\ bLast'.remote = <<>>
             /\ bLast'.res = BridgeRes("tools", mcp.toolsCache[1], <<>>, FALSE)
             /\ mcp' = mcp]_vars
  /\ [][(mcp.toolsCache # <<>> /\ mcp'.toolsCache # mcp.toolsCache)
          => /\ \/ bLast'.op = "disconnect"
                \/ Reconnected(bLast'.remote) /\ mcp'.endpoint # mcp.endpoint
             /\ (mcp'.toolsCache = <<>> \/ Fetched(bLast'.remote))]_vars

\* the third call was a listTools answered from the cache of the first
C25_Witness ==
  /\ bCount = 3 /\ bFetches = 1
  /\ bLast.op = "listTools" /\ bLast.remote = <<>>
  /\ bLast.res = BridgeRes("tools", <<>>, <<>>, FALSE)
  /\ mcp.toolsCache = << <<>> >>

\* C26: every tool definition handed to the inference transport has a
\* non-empty description, the tool's bare name when the declared
\* description is absent, null or the empty string
C26_DescriptionNonEmpty ==
  /\ Len(toolDefinitions) = Len(tools)
  /\ \A i \in 1..Len(tools) :
       /\ toolDefinitions[i].function.description # <<>>
       /\ (tools[i].description \in {OptAbsent, OptNull, Str(<<>>)}
             => toolDefinitions[i].function.description = <<tools[i].name>>)

\* the contents of the first n events, concatenated
RECURSIVE Concatenated(_, _)
Concatenated(rcvd, n) ==
  IF n = 0 THEN <<>> ELSE Concatenated(rcvd, n - 1) \o rcvd[n].content

\* the request has received chunk events and then, as event i, done
ChunksThenDone(i) ==
  /\ i \in 2..Len(chat.rcvd)
  /\ chat.rcvd[i].type = "done"
  /\ \A j \in 1..(i - 1) : chat.rcvd[j].type = "chunk"

\* the text of a response, null read as the empty text
TextOf(o) == IF o.content = <<>> THEN <<>> ELSE o.content[1]

\* C27: a chat request that receives chunk events c1..cn and then done has
\* as the final text of its response the content of done when done has one,
\* and c1 + ... + cn otherwise: "Hel", "lo" and a done without content give
\* "Hello"
C27_FinalText ==
  \A i \in 1..Len(chat.rcvd) :
    ChunksThenDone(i)
      => /\ chat.outcome.kind = "resolved"
         /\ TextOf(chat.outcome) = IF chat.rcvd[i].content # <<>>
                                   THEN chat.rcvd[i].content
                                   ELSE Concatenated(chat.rcvd, i - 1)

\* the step is the event of this type
Received(type) ==
  /\ Len(chat'.rcvd) = Len(chat.rcvd) + 1
  /\ chat'.rcvd[Len(chat'.rcvd)].type = type

\* C28: every chat request settles: while it is pending its watchdog is
\* set, the watchdog firing closes the connection and rejects the request
\* with the timeout error, and no request stays pending forever
C28_Settles ==
  /\ [](chat.st = "open" /\ chat.outcome.kind = "pending" => chat.timeout)
  /\ [][Received("timeout")
          => /\ chat.outcome.kind = "pending"
             /\ chat'.outcome = Rejected(RejTimeout)
             /\ chat'.ws \in {"closing", "closed"}]_vars
  /\ (chat.st = "open" ~> chat.outcome.kind # "pending")

\* chunks arrived, no done and no error: the watchdog rejected the request
C28_Witness ==
  /\ chat.outcome = Rejected(RejTimeout)
  /\ chat.ws = "closing"
  /\ Len(chat.rcvd) = 3
  /\ chat.rcvd[1].type = "chunk" /\ chat.rcvd[2].type = "tool_call"
  /\ chat.rcvd[3].type = "timeout"

\* a done event was received before any close, watchdog or error event
DoneCameFirst ==
  \E i \in 1..Len(chat.rcvd) :
    /\ chat.rcvd[i].type = "done"
    /\ \A j \in 1..(i - 1) : chat.rcvd[j].type \notin {"close", "timeout", "error"}

\* C29: a chat request has one outcome: once settled it stays as it is; it
\* is resolved only if a done event came before the transport closed, the
\* watchdog fired or an error event arrived; an error event, and a close,
\* with no done before it leaves the request rejected
C29_OneOutcome ==
  /\ [][chat.outcome.kind # "pending" => chat'.outcome = chat.outcome]_vars
  /\ [](chat.outcome.kind = "resolved" => DoneCameFirst)
  /\ [][((Received("error") \/ Received("close"))
            /\ \A i \in 1..Len(chat.rcvd) : chat.rcvd[i].type # "done")
          => chat'.outcome.kind = "rejected"]_vars

\* resolved by done with a tool call; the error event and the close that
\* came after it changed nothing
C29_Witness ==
  /\ chat.outcome.kind = "resolved" /\ chat.outcome.toolCalls = 1
  /\ chat.ws = "closed"
  /\ \E i \in 1..Len(chat.rcvd) : chat.rcvd[i].type = "error"

\* C30: when the final model turn arrives as streamed content chunks and
\* done, the request succeeds and the history gains one assistant message
\* for the answer, the placeholder of the first chunk: no second assistant
\* message and no error message
C30_StreamedAnswerOnce ==
  [][\A r \in 1..Len(tasks) :
       (/\ tasks[r].pc = "infer" /\ tasks[r].req.stream
        /\ aAct' \in {AAct("stop", r), AAct("length", r)}
        /\ \E i \in (Len(messages) + 1)..Len(messages') : messages'[i].kind = "chunk")
         => /\ Len(messages') = Len(messages) + 1
            /\ messages'[Len(messages')].role = "assistant"
            /\ messages'[Len(messages')].error = "none"
            /\ tasks'[r].pc = "done" /\ tasks'[r].res = "state"]_vars

\* C31: resetConversation replaces the history as a whole. The state the
\* reset handler returns right after it holds exactly the system prompt; no
\* array a reader was given is empty or starts with anything but the system
\* prompt; and an array returned by getState() holds the history of the
\* moment it was returned, also after a later reset
C31_ResetReplacesHistory ==
  /\ [](\A i \in 1..Len(snapshot) : snapshot[i] # <<>> /\ snapshot[i][1] = SystemMsg)
  /\ [][/\ resets' # resets =>
             /\ messages' = <<SystemMsg>>
             /\ snapshot'[Len(snapshot')] = <<SystemMsg>>
        /\ Len(snapshot') > Len(snapshot) /\ resets' = resets =>
             snapshot'[Len(snapshot')] = messages
        /\ \A i \in 1..Len(snapshot) : snapshot'[i] = snapshot[i]]_vars

\* a reader was handed the history of a request in flight, then the reset
\* handler ran
C31_Witness ==
  /\ resets = 1 /\ Len(snapshot) = 2
  /\ Len(snapshot[1]) > 2
  /\ snapshot[2] = <<SystemMsg>>
  /\ \E r \in 1..Len(tasks) : tasks[r].pc = "tool"

\* C32: between resets the history is append-only: a step that is not a
\* reset removes and reorders nothing and leaves every message it finds as it
\* is, except that the content of the last assistant message may grow
IsPrefix(a, b) == Len(a) <= Len(b) /\ SubSeq(b, 1, Len(a)) = a

LastAssistant(msgs) ==
  LET A == {i \in 1..Len(msgs) : msgs[i].role = "assistant"} IN
    IF A = {} THEN 0 ELSE CHOOSE i \in A : \A j \in A : j <= i

C32_AppendOnly ==
  [][resets' = resets =>
       /\ Len(messages') >= Len(messages)
       /\ \A i \in 1..Len(messages) :
            \/ messages'[i] = messages[i]
            \/ /\ i = LastAssistant(messages)
               /\ messages'[i] = [messages[i] EXCEPT !.text = messages'[i].text]
               /\ IsPrefix(messages[i].text, messages'[i].text)]_vars

\* after a reset a request went on: it appended a tool turn, and its streamed
\* answer left a placeholder and the error message
C32_Witness ==
  /\ resets = 1
  /\ \E i, j, k \in 2..Len(messages) :
       /\ i < j /\ j < k
       /\ messages[i].kind = "toolResult"
       /\ messages[j].kind = "chunk"
       /\ messages[k].error = ErrNoId

\* C33: the agent loop is deterministic in its inputs: two sessions that
\* start from identical conversation states and are given the same user text,
\* model responses and tool results hold identical histories, ids and
\* creation times included
C33_ReplayIdentical == replay.a = replay.b

\* C36: a reset is safe against a request in flight: every tool result in
\* the history comes after an assistant message of the same model turn whose
\* tool calls include it, and the history holds no message of a request
\* whose user message a reset has removed
C36_ResetSafe ==
  /\ \A i \in 1..Len(messages) :
       messages[i].kind = "toolResult" =>
         \E j \in 1..(i - 1) :
           /\ messages[j].kind = "toolCalls"
           /\ messages[j].req = messages[i].req /\ messages[j].it = messages[i].it
           /\ messages[i].k <= messages[j].k
  /\ \A i \in 1..Len(messages) :
       messages[i].req > 0 =>
         \E j \in 1..i : messages[j].role = "user" /\ messages[j].req = messages[i].req

\* C37: the bridge recovers from a failed connection: when the connection
\* attempt to an endpoint has failed (the endpoint is recorded, the transport
\* is there, the client is not), a listTools or callTool call with a base URL
\* of that endpoint attempts to connect again
C37_ReconnectsAfterFailure ==
  [][(/\ bCount' = bCount + 1
      /\ bLast'.op \in {"listTools", "callTool"}
      /\ mcp.endpoint = <<Endpoint(bLast'.url)>>
      /\ mcp.transport /\ ~mcp.client)
       => Reconnected(bLast'.remote)]_vars

\* C38: the answer of a successful request comes from a model turn that saw
\* every tool result of the request: once a request has ended with an answer,
\* each of its tool results was followed by an inference request of the same
\* user message, sent in a later iteration
Answered(r) ==
  /\ tasks[r].pc = "done"
  /\ r = Len(tasks) \/ tasks[r + 1].pc = "queued"
  /\ \E i \in 1..Len(messages) : messages[i].req = r /\ messages[i].kind = "answer"

C38_ToolResultsSeen ==
  \A r \in 1..Len(tasks) :
    Answered(r) =>
      \A i \in 1..Len(messages) :
        (messages[i].req = r /\ messages[i].kind = "toolResult") =>
          \E j \in 1..Len(llmSent) : llmSent[j].it > messages[i].it

\* C34: a managed service has at most one live child process that it
\* spawned: start() spawns no process while one spawned earlier by the same
\* service is still alive
LiveChildren(s) == {p \in ProcIds : procs[p].svc = s /\ procs[p].st = "live"}

C34_OneLiveChild == \A s \in Services : Cardinality(LiveChildren(s)) <= 1

\* C39: stop() reports Stopped and drops the process handle only after the
\* child has exited: in the step in which a stop() in progress completes
\* with status Stopped, the process the service held has exited
C39_StoppedAfterExit ==
  [][\A s \in Services :
       (status[s] = Stopping /\ status'[s] = Stopped /\ process[s] # 0)
         => /\ process'[s] = 0
            /\ procs[process[s]].st # "live"]_vars

\* C35: a stop() called while a start() of the same service is in progress
\* is not overridden by that start(): when the start() settles after the
\* stop() has completed (the status it finds is Stopped), the service is not
\* Running and none of its children is alive
StartSettles(c) ==
  /\ calls[c].op = "start" /\ calls[c].pc # "done"
  /\ calls'[c].pc = "done"

C35_StopNotOverridden ==
  [][\A c \in CallIds :
       (StartSettles(c) /\ status[calls[c].svc] = Stopped)
         => /\ status'[calls[c].svc] # Running
            /\ LiveChildren(calls[c].svc)' = {}]_vars

\* C40: when the start of the Go backend in the ordered startup has failed,
\* start() of the Python backend is never invoked and the ConversationManager
\* has no backend address; no inference request is sent and no tool is
\* called, and every sendUserMessage that has ended has appended its user
\* message and the 'backend not started' error message, nothing else
GoStartupFailed ==
  /\ driver = "lifecycle" /\ Len(calls) >= 1
  /\ calls[1].svc = GoName /\ calls[1].by = "lifecycle"
  /\ calls[1].pc = "done" /\ calls[1].res = "err"

C40_NoBackendAfterFailedStartup ==
  GoStartupFailed =>
    /\ \A c \in CallIds : calls[c].svc = PythonName => calls[c].by # "lifecycle"
    /\ PythonProcs = {}
    /\ cmBaseUrl = <<>>
    /\ llmSent = <<>>
    /\ \A i \in 1..Len(messages) : messages[i].kind \in {"prompt", "text", "error"}
    /\ \A r \in 1..Len(tasks) :
         /\ tasks[r].pc \in {"queued", "done"}
         /\ tasks[r].pc = "done" =>
              /\ Cardinality({i \in 1..Len(messages) : messages[i].req = r}) = 2
              /\ \E i \in 1..(Len(messages) - 1) :
                   /\ messages[i].role = "user" /\ messages[i].req = r
                   /\ messages[i + 1] = ErrorMsg(r, ErrNoBackend)

\* the Go backend timed out at startup; two user messages were sent later
\* and both ended with the error message
C40_Witness ==
  /\ GoStartupFailed
  /\ lc.pc = "ready"
  /\ Len(tasks) = 2 /\ \A r \in 1..2 : tasks[r].pc = "done"
  /\ Len(messages) = 5
  /\ messages[5] = ErrorMsg(2, ErrNoBackend)

====
